---- MODULE Spec2Model ----
(***************************************************************************)
(* Model of the Affinity agent repository.                                 *)
(*                                                                         *)
(*   SpecAgent     Agent.run (src/agent/openai_agent.py): the tool-calling *)
(*                 loop, with dispatch_tool (src/agent/tools.py).          *)
(*   SpecDispatch  dispatch_tool alone, over every tool name, argument     *)
(*                 string class and client outcome.                        *)
(*   SpecApi       conversations calling AffinityAPI                       *)
(*                 (src/affinity_client.py) and AffinityV1                 *)
(*                 (src/affinity/client_v1.py) against one remote list.    *)
(*   SpecTransport the transports (_request / _req) against a feed of      *)
(*                 HTTP statuses.                                          *)
(*   SpecPages     the paginated scans: find_list_id_by_name and           *)
(*                 find_company of both v2 clients, get_list_entries of    *)
(*                 AffinityAPI; SpecPagesFair adds that a call goes on.    *)
(*   SpecCoerce    _coerce_value_for_field and _get_field_details          *)
(*                 (src/affinity_client.py) over strings of characters.    *)
(***************************************************************************)
EXTENDS Integers, Sequences, FiniteSets, TLC

VARIABLES
    \* ---- Agent.run (src/agent/openai_agent.py)
    messages,        \* the caller's input list
    chat_messages,   \* the conversation sent to the model
    tool_events,     \* the trace events
    msg_tool_calls,  \* msg.tool_calls of the response being executed
    tc_index,        \* position of the for-loop over msg.tool_calls (1-based)
    result,          \* result of the dispatch whose turn is not yet appended
    pc,              \* "awaiting" | "executing" | "dispatched" | "final" | "raised"
    final,           \* the text run returns
    n_invocations,   \* number of chat.completions.create calls so far
    \* ---- dispatch_tool alone (src/agent/tools.py)
    d_in,            \* the inputs of one dispatch_tool call
    d_out,           \* its outcome
    \* ---- conversations against the remote list (src/affinity_client.py)
    list_entries,    \* remote: the list's entries, in creation order
    field_values,    \* remote: the field values, in creation order
    conv,            \* per conversation: the call in progress
    hist,            \* per conversation: the calls completed, in order
    n_faults,        \* responses other than success the remote has given
    \* ---- transports
    tr,              \* one transport call against a feed of statuses
    \* ---- paginated scans (src/affinity/client_v2.py, src/client_v2.py)
    pg,              \* one find_list_id_by_name, find_company or get_list_entries call
    \* ---- field resolution and value coercion (src/affinity_client.py)
    co               \* calls of _coerce_value_for_field or _get_field_details

agentVars == <<messages, chat_messages, tool_events, msg_tool_calls, tc_index,
               result, pc, final, n_invocations>>
dispVars == <<d_in, d_out>>
apiVars == <<list_entries, field_values, conv, hist, n_faults>>
trVars == <<tr>>
pgVars == <<pg>>
coVars == <<co>>
vars == <<agentVars, dispVars, apiVars, trVars, pgVars, coVars>>

NoVal == "none"
\* No outcome yet.
NoResult == [kind |-> "none"]

(***************************************************************************)
(* Bounds of the model.                                                    *)
(***************************************************************************)
\* most tool calls in one model response
MaxToolCalls == 2
\* model invocations after which the modelled provider stops requesting tools
ModelCallCap == 2
\* the maximum turn count a caller would supply
MaxTurns == 1
\* tool calls started, over all conversations, in one run of SpecApi
MaxCalls == 2
\* responses other than success the remote gives in one run of SpecApi
MaxFaults == 1

(***************************************************************************)
(* Tool catalog and dispatcher (src/agent/tools.py).                       *)
(***************************************************************************)
TOOL_SCHEMAS ==
    {"add_company", "add_note_to_company", "read_notes_for_company",
     "add_company_to_list", "update_list_field", "batch_update_list_fields",
     "find_list_id_by_name", "find_company_id", "auth_whoami"}

\* Tool names a model may emit: the catalog and one name outside it.
ToolNames == TOOL_SCHEMAS \cup {"unknown_action"}

\* Classes of argument strings:
\*   "valid"      a JSON object satisfying the tool's schema, optional fields given
\*   "empty"      "" or "{}": json.loads(args_json or "{}") is the empty object
\*   "malformed"  not JSON
\*   "wrong_type" a JSON object with every key present and a value of a wrong type
ArgStrings == {"valid", "empty", "malformed", "wrong_type"}

\* What a client method does when called: return a payload or raise.
ClientOutcomes == {"ok", "RuntimeError", "PermissionError"}

\* The pydantic model each tool's arguments are parsed with, as
\* <<has a required field, has any field>>.
ArgsModel(name) ==
    CASE name = "find_company_id" -> <<FALSE, TRUE>>
      [] name = "auth_whoami"     -> <<FALSE, FALSE>>
      [] OTHER                    -> <<TRUE, TRUE>>

Return(tag, detail, calls) ==
    [kind |-> "return", tag |-> tag, detail |-> detail, calls |-> calls]
Raise(exc, calls) ==
    [kind |-> "raise", tag |-> "exception", detail |-> exc, calls |-> calls]

\* A _parse that accepts every argument string.
ParseAccepts(name, args_json) == "ok"

\* _parse: json.loads then model_cls(**data); "ok" or the exception raised.
_parse(name, args_json) ==
    CASE args_json = "malformed" -> "JSONDecodeError"
      [] args_json = "empty" ->
            IF ArgsModel(name)[1] THEN "ValidationError" ELSE "ok"
      [] args_json = "wrong_type" ->
            IF ArgsModel(name)[2] THEN "ValidationError" ELSE "ok"
      [] OTHER -> "ok"

\* A call of a client method: it returns the payload or raises what the client raises.
ClientCall(method, outcome) ==
    IF outcome = "ok" THEN Return("payload", method, <<method>>)
    ELSE Raise(outcome, <<method>>)

\* v2.batch_update_list_fields(list_id=, list_entry_id=, operations=): the method
\* of src/affinity/client_v2.py names the parameter `updates`, so the call raises
\* TypeError before any request.
V2BatchUpdate(outcome) == Raise("TypeError", <<>>)

\* v1.search_companies: AffinityV1 defines no such method.
V1SearchCompanies == Raise("AttributeError", <<>>)

\* v2.find_company: without name and domain it returns an error object and
\* fetches nothing.
V2FindCompany(args_json, outcome) ==
    IF args_json = "empty" THEN Return("error", "Provide name or domain", <<>>)
    ELSE ClientCall("v2.find_company", outcome)

\* A create-type branch that goes to the client without looking at v1.
GatedCallsAnyway(p, v1, method, gap, v1out) ==
    IF p # "ok" THEN Raise(p, <<>>) ELSE ClientCall(method, v1out)

\* A create-type branch: _parse, then `if not v1: return {"error": ...}`, then
\* the method of the v1 client.
Gated(p, v1, method, gap, v1out) ==
    IF p # "ok" THEN Raise(p, <<>>)
    ELSE IF ~v1 THEN Return("error", gap, <<>>)
    ELSE ClientCall(method, v1out)

\* An unknown name that ends in an exception.
UnknownToolRaises(name) == Raise("KeyError", <<>>)

\* The last statement of the try block: return {"error": f"Unknown tool {name}"}.
UnknownTool(name) == Return("error", "Unknown tool", <<>>)

\* The body of the try block of dispatch_tool.
DispatchBody(name, args_json, v1, v2out, v1out) ==
    LET p == _parse(name, args_json)
        gated(method, gap) == Gated(p, v1, method, gap, v1out)
        plain(r) == IF p # "ok" THEN Raise(p, <<>>) ELSE r
    IN  CASE name = "add_company" ->
               gated("v1.create_company", "v1 key not configured; cannot create companies")
          [] name = "add_note_to_company" ->
               gated("v1.create_company_note", "v1 key not configured; cannot add notes")
          [] name = "read_notes_for_company" ->
               plain(ClientCall("v2.get_company_notes", v2out))
          [] name = "add_company_to_list" ->
               gated("v1.add_company_to_list", "v1 key not configured; cannot add to lists")
          [] name = "update_list_field" ->
               plain(ClientCall("v2.update_list_field", v2out))
          [] name = "batch_update_list_fields" ->
               plain(V2BatchUpdate(v2out))
          [] name = "find_list_id_by_name" ->
               plain(ClientCall("v2.find_list_id_by_name", v2out))
          [] name = "find_company_id" ->
               IF p # "ok" THEN Raise(p, <<>>)
               ELSE LET r == V2FindCompany(args_json, v2out)
                    IN  IF r.kind = "return" THEN r
                        ELSE IF r.detail = "PermissionError" THEN
                            IF v1 /\ args_json = "valid"
                            THEN [V1SearchCompanies EXCEPT !.calls = r.calls]
                            ELSE Return("error", "PermissionError", r.calls)
                        ELSE Return("error", "find_company_id failed", r.calls)
          [] name = "auth_whoami" ->
               plain(ClientCall("v2.whoami", v2out))
          [] OTHER -> UnknownTool(name)

\* A dispatch_tool that lets the exception of the try block through.
DispatchNoCatch(name, args_json, v1, v2out, v1out) ==
    DispatchBody(name, args_json, v1, v2out, v1out)

\* dispatch_tool: the try block, and `except Exception` turning whatever it
\* raises into {"error": "Tool dispatcher error: ..."}.
dispatch_tool(name, args_json, v1, v2out, v1out) ==
    LET r == DispatchBody(name, args_json, v1, v2out, v1out)
    IN  IF r.kind = "raise"
        THEN Return("error", "Tool dispatcher error", r.calls)
        ELSE r

(***************************************************************************)
(* Agent.run (src/agent/openai_agent.py).                                  *)
(***************************************************************************)
Turn(role, content, tool_calls, tool_call_id, name) ==
    [role |-> role, content |-> content, tool_calls |-> tool_calls,
     tool_call_id |-> tool_call_id, name |-> name]

\* An input message: {"role": ..., "content": ...}.
InMsg(role, content) == [role |-> role, content |-> content]

\* The input histories the runs start from.
Histories ==
    { <<InMsg("user", "q1")>>,
      <<InMsg("system", "sys"), InMsg("user", "q1")>>,
      <<InMsg("user", "q1"), InMsg("assistant", "a1"), InMsg("tool", "t1"),
        InMsg("user", "q2")>> }

\* The seeding loop: system, user and assistant messages are copied (role and
\* content only), in order; a message of any other role is skipped.
RECURSIVE SeedConversation(_)
SeedConversation(ms) ==
    IF ms = <<>> THEN <<>>
    ELSE LET m == Head(ms)
             rest == SeedConversation(Tail(ms))
         IN  IF m.role \in {"system", "user", "assistant"}
             THEN <<Turn(m.role, m.content, <<>>, NoVal, NoVal)>> \o rest
             ELSE rest

\* The ids a provider gives the calls of its responses. The calls of one
\* response carry distinct ids; a later response may use an id again.
CallIds == <<"call_a", "call_b", "call_c">>

\* The calls the modelled provider asks for.
AgentCalls ==
    { [name |-> "find_list_id_by_name", arguments |-> "valid"],
      [name |-> "unknown_action", arguments |-> "empty"] }

\* The responses with tool calls: 1..MaxToolCalls calls, ids distinct.
ToolCallLists ==
    UNION { { [j \in 1..k |->
                 [id |-> CallIds[((s + j - 2) % Len(CallIds)) + 1],
                  name |-> f[j].name, arguments |-> f[j].arguments]]
              : f \in [1..k -> AgentCalls], s \in 1..Len(CallIds) }
            : k \in 1..MaxToolCalls }

\* The texts a final response may carry; "" stands for no content.
FinalContents == {"answer", ""}

\* json.dumps(result): the serialisable part of a dispatch result.
json_dumps(r) == <<r.tag, r.detail>>

\* The clients Agent.run passes to dispatch_tool: a working v2 client, and
\* affinity_v1 at its default None.
AgentDispatch(tc) == dispatch_tool(tc.name, tc.arguments, FALSE, "ok", "ok")

AgentIdle ==
    /\ messages = <<>> /\ chat_messages = <<>> /\ tool_events = <<>>
    /\ msg_tool_calls = <<>> /\ tc_index = 0 /\ result = NoVal
    /\ pc = "idle" /\ final = NoVal /\ n_invocations = 0

DispIdle == d_in = NoVal /\ d_out = NoResult

ApiIdle ==
    /\ list_entries = <<>> /\ field_values = <<>>
    /\ conv = NoVal /\ hist = NoVal /\ n_faults = 0

TrIdle == tr = [pc |-> "idle"]

PgIdle == pg = [pc |-> "idle"]

CoIdle == co = [pc |-> "idle"]

\* run() up to the first model invocation.
AgentInit ==
    /\ messages \in Histories
    /\ chat_messages = SeedConversation(messages)
    /\ tool_events = <<>>
    /\ msg_tool_calls = <<>>
    /\ tc_index = 0
    /\ result = NoVal
    /\ pc = "awaiting"
    /\ final = NoVal
    /\ n_invocations = 0

\* The model answers with text: run returns it.
ModelAnswers ==
    /\ pc = "awaiting"
    /\ \E content \in FinalContents :
         final' = IF content = "" THEN "(no content)" ELSE content
    /\ n_invocations' = n_invocations + 1
    /\ pc' = "final"
    /\ UNCHANGED <<messages, chat_messages, tool_events, msg_tool_calls,
                   tc_index, result>>
    /\ UNCHANGED <<dispVars, apiVars, trVars, pgVars, coVars>>

\* The turn appended for a response with tool calls.
AssistantWithCalls(tcs) == Turn("assistant", "", tcs, NoVal, NoVal)

\* A conversation whose last turn is overwritten by the new one.
ReplaceLastTurn(conversation, turn) ==
    IF conversation = <<>> THEN <<turn>>
    ELSE [conversation EXCEPT ![Len(conversation)] = turn]

\* chat_messages.append(turn)
AppendTurn(conversation, turn) == Append(conversation, turn)

\* The model answers with tool calls: the assistant turn is appended.
ModelRequestsTools ==
    /\ pc = "awaiting"
    /\ n_invocations < ModelCallCap
    /\ \E tcs \in ToolCallLists :
         /\ msg_tool_calls' = tcs
         /\ chat_messages' = AppendTurn(chat_messages, AssistantWithCalls(tcs))
    /\ n_invocations' = n_invocations + 1
    /\ tc_index' = 1
    /\ pc' = "executing"
    /\ UNCHANGED <<messages, tool_events, result, final>>
    /\ UNCHANGED <<dispVars, apiVars, trVars, pgVars, coVars>>

\* A loop that walks msg.tool_calls from its end.
NextToolCallReversed == msg_tool_calls[Len(msg_tool_calls) - tc_index + 1]

\* The call the for-loop dispatches next.
NextToolCall == msg_tool_calls[tc_index]

\* A trace that takes the newest event in front.
RecordEventInFront(events, e) == <<e>> \o events

\* tool_events.append({"name": name, "args": args_json, "result": result})
RecordEvent(events, e) == Append(events, e)

\* Loop body, first half: dispatch_tool and the trace event.
DispatchTool ==
    /\ pc = "executing"
    /\ LET tc == NextToolCall
           r == AgentDispatch(tc)
       IN  IF r.kind = "raise"
           THEN /\ pc' = "raised"
                /\ UNCHANGED <<result, tool_events>>
           ELSE /\ result' = r
                /\ tool_events' = RecordEvent(tool_events,
                      [name |-> tc.name, args |-> tc.arguments, result |-> r])
                /\ pc' = "dispatched"
    /\ UNCHANGED <<messages, chat_messages, msg_tool_calls, tc_index, final,
                   n_invocations>>
    /\ UNCHANGED <<dispVars, apiVars, trVars, pgVars, coVars>>

\* A tool turn that carries the id of the response's first call.
ToolTurnFirstId(tc, r) ==
    Turn("tool", json_dumps(r), <<>>, msg_tool_calls[1].id, tc.name)

\* The tool turn appended for the call just dispatched.
ToolTurn(tc, r) == Turn("tool", json_dumps(r), <<>>, tc.id, tc.name)

\* A loop body that goes back to the model after the first tool turn.
AppendToolResultEarly ==
    /\ pc = "dispatched"
    /\ chat_messages' = Append(chat_messages, ToolTurn(NextToolCall, result))
    /\ result' = NoVal
    /\ tc_index' = 0
    /\ pc' = "awaiting"
    /\ UNCHANGED <<messages, tool_events, msg_tool_calls, final, n_invocations>>
    /\ UNCHANGED <<dispVars, apiVars, trVars, pgVars, coVars>>

\* Loop body, second half: the tool turn; after the last call, back to the model.
AppendToolResult ==
    /\ pc = "dispatched"
    /\ chat_messages' = AppendTurn(chat_messages, ToolTurn(NextToolCall, result))
    /\ result' = NoVal
    /\ IF tc_index < Len(msg_tool_calls)
       THEN /\ tc_index' = tc_index + 1
            /\ pc' = "executing"
       ELSE /\ tc_index' = 0
            /\ pc' = "awaiting"
    /\ UNCHANGED <<messages, tool_events, msg_tool_calls, final, n_invocations>>
    /\ UNCHANGED <<dispVars, apiVars, trVars, pgVars, coVars>>

AgentNext ==
    \/ ModelAnswers
    \/ ModelRequestsTools
    \/ DispatchTool
    \/ AppendToolResult

InitAgent == AgentInit /\ DispIdle /\ ApiIdle /\ TrIdle /\ PgIdle /\ CoIdle

SpecAgent == InitAgent /\ [][AgentNext]_vars

(***************************************************************************)
(* dispatch_tool alone: one call over every input.                         *)
(***************************************************************************)
DispatchInputs ==
    [name : ToolNames, args_json : ArgStrings, v1 : BOOLEAN,
     v2out : ClientOutcomes, v1out : ClientOutcomes]

DispInit == d_in \in DispatchInputs /\ d_out = NoResult

DispatchCall ==
    /\ d_out.kind = "none"
    /\ d_out' = dispatch_tool(d_in.name, d_in.args_json, d_in.v1, d_in.v2out,
                              d_in.v1out)
    /\ UNCHANGED <<d_in, agentVars, apiVars, trVars, pgVars, coVars>>

InitDispatch == DispInit /\ AgentIdle /\ ApiIdle /\ TrIdle /\ PgIdle /\ CoIdle

SpecDispatch == InitDispatch /\ [][DispatchCall]_vars

(***************************************************************************)
(* Transports: the retry policy of one attempt.                            *)
(***************************************************************************)
\* _request(..., retries: int = 3)
retries == 3
\* stop_after_attempt(3)
V1_ATTEMPTS == 3

\* The statuses AffinityAPI._request sleeps on and tries again.
TRANSIENT == {429, 500, 502, 503, 504}

\* requests' Response.ok
RespOk(status) == status < 400

\* One pass of the for-loop of AffinityAPI._request, `attempt` in 0..retries-1:
\* "retry" (continue), "return", "raise" (RuntimeError), and after the last
\* pass with a transient status resp.raise_for_status(), which raises HTTPError.
RequestAttempt(status, attempt) ==
    IF status \in TRANSIENT
    THEN IF attempt + 1 < retries THEN "retry" ELSE "raise_for_status"
    ELSE IF ~RespOk(status) THEN "raise"
    ELSE "return"

\* An AffinityV1._req that tries again on the transient statuses only.
V1ReqAttemptTransientOnly(status, attempt) ==
    IF status \in TRANSIENT
    THEN IF attempt + 1 < V1_ATTEMPTS THEN "retry" ELSE "raise"
    ELSE IF status >= 400 THEN "raise"
    ELSE "return"

\* One attempt of AffinityV1._req under @retry(stop=stop_after_attempt(3)):
\* any status >= 400 raises and the call is tried again until the last attempt.
V1ReqAttempt(status, attempt) ==
    IF status >= 400
    THEN IF attempt + 1 < V1_ATTEMPTS THEN "retry" ELSE "raise"
    ELSE "return"

(***************************************************************************)
(* Conversations calling the clients against one remote list.              *)
(*   add_if_needed  AffinityAPI.add_organization_to_list_if_needed         *)
(*   change_field   AffinityAPI.change_field_value_in_list                 *)
(*   v1_add         dispatch_tool("add_company_to_list") with a v1 client  *)
(***************************************************************************)
Convs == {"A", "B"}
\* The organization the calls are about; organization 2 has a row on the
\* list, and a field value on it, before any call.
Orgs == {1}
\* field_name_or_id as given: the id of a field of the list, or of none.
FieldInputs == {1, 9}
\* Ids of the fields GET /fields returns for the list: one dropdown field.
ListFieldIds == {1}
\* The dropdown's options, text to id.
OptionTexts == {"a", "b"}
OptionId(text) == IF text = "a" THEN 1 ELSE 2
\* Values as given: two option texts and a text matching no option.
ValueInputs == {"a", "b", "bad"}

\* Responses to a read: success, rate limit, client error.
ReadResponses == {[status |-> 200, applied |-> FALSE],
                  [status |-> 429, applied |-> FALSE],
                  [status |-> 404, applied |-> FALSE]}
\* Responses to a write: as for a read, success applying the write, and a
\* gateway timeout answering a write the remote has applied.
WriteResponses == {[status |-> 200, applied |-> TRUE],
                   [status |-> 429, applied |-> FALSE],
                   [status |-> 404, applied |-> FALSE],
                   [status |-> 504, applied |-> TRUE]}

IdleCall ==
    [pc |-> "idle", kind |-> NoVal, via |-> FALSE, org |-> 0, field |-> 0,
     value |-> NoVal, attempt |-> 0, le_id |-> 0, field_id |-> 0,
     coerced |-> 0, fv_id |-> 0, adds |-> 0, creates |-> 0, updates |-> 0,
     had_fv |-> {}]

\* A lookup that takes the first entry of the list, whose ever it is.
get_list_entry_id_any(entries, organization_id) ==
    IF entries = <<>> THEN 0 ELSE entries[1].id

\* get_list_entry_id over the entries a GET returned: the id of the first
\* entry of the organization, 0 for None.
get_list_entry_id(entries, organization_id) ==
    LET idx == {i \in 1..Len(entries) : entries[i].entity_id = organization_id}
    IN  IF idx = {} THEN 0
        ELSE entries[CHOOSE i \in idx : \A j \in idx : i <= j].id

\* The remote's new list entry for POST /lists/{list_id}/list-entries.
NewEntry(org) == [id |-> 100 + Len(list_entries) + 1, entity_id |-> org]

\* The remote's new field value for POST /field-values.
NewFieldValue(field_id, value, entity_id, list_entry_id) ==
    [id |-> 200 + Len(field_values) + 1, field_id |-> field_id,
     list_entry_id |-> list_entry_id, entity_id |-> entity_id, value |-> value]

\* A comparison that never matches: no existing field value is found.
ExistingFieldValuesNone(fvs, organization_id, field_id, le_id) == <<>>

\* The list comprehension of change_field_value_in_list: the field values of
\* the organization with this field and list entry, in order.
ExistingFieldValues(fvs, organization_id, field_id, le_id) ==
    SelectSeq(fvs, LAMBDA fv : /\ fv.entity_id = organization_id
                               /\ fv.field_id = field_id
                               /\ fv.list_entry_id = le_id)

\* Ids of the field values that exist for (field, the organization's list
\* entry) when a call starts.
FieldValuesAtCall(org, field) ==
    LET le == get_list_entry_id(list_entries, org)
    IN  {field_values[i].id : i \in
           {k \in 1..Len(field_values) :
              /\ le # 0
              /\ field_values[k].field_id = field
              /\ field_values[k].list_entry_id = le}}

CallsOf(c) == Len(hist[c]) + (IF conv[c].pc = "idle" THEN 0 ELSE 1)
CallsStarted == CallsOf("A") + CallsOf("B")
\* The conversations are alike: "A" is the one that makes the first call.
MayStart(c) ==
    /\ conv[c].pc = "idle"
    /\ CallsStarted < MaxCalls
    /\ c = "B" => CallsOf("A") > 0

\* What a step does to the call: go on, or end it.
Cont(rec) == [done |-> FALSE, rec |-> rec, outcome |-> NoVal, ret |-> NoVal]
Done(rec, outcome, ret) ==
    [done |-> TRUE, rec |-> rec, outcome |-> outcome, ret |-> ret]
Goto(rec, p) == [rec EXCEPT !.pc = p, !.attempt = 0]

Summary(rec, outcome, ret) ==
    [kind |-> rec.kind, org |-> rec.org, field |-> rec.field,
     outcome |-> outcome, ret |-> ret, adds |-> rec.adds,
     creates |-> rec.creates, updates |-> rec.updates, fv_id |-> rec.fv_id,
     had_fv |-> rec.had_fv, at |-> rec.pc]

Apply(c, st) ==
    IF st.done
    THEN /\ hist' = [hist EXCEPT ![c] = Append(@, Summary(st.rec, st.outcome, st.ret))]
         /\ conv' = [conv EXCEPT ![c] = IdleCall]
    ELSE /\ conv' = [conv EXCEPT ![c] = st.rec]
         /\ UNCHANGED hist

\* The remote answers with resp; a response other than success is a fault.
Answer(resp) ==
    /\ resp.status # 200 => n_faults < MaxFaults
    /\ n_faults' = n_faults + (IF resp.status = 200 THEN 0 ELSE 1)

\* AffinityAPI._request for the call record r after the response resp:
\* okStep on success, another attempt, or the exception.
_request(r, resp, okStep) ==
    LET a == RequestAttempt(resp.status, r.attempt)
    IN  CASE a = "return" -> okStep
          [] a = "retry" -> Cont([r EXCEPT !.attempt = @ + 1])
          [] a = "raise" -> Done(r, "raised", "RuntimeError")
          [] OTHER -> Done(r, "raised", "HTTPError")

\* AffinityV1._req under dispatch_tool: on the last failed attempt the
\* exception reaches dispatch_tool, which returns an error object.
V1Req(r, resp, okStep) ==
    LET a == V1ReqAttempt(resp.status, r.attempt)
    IN  CASE a = "return" -> okStep
          [] a = "retry" -> Cont([r EXCEPT !.attempt = @ + 1])
          [] OTHER -> Done(r, "returned", "error")

ApiInit ==
    /\ list_entries = <<[id |-> 101, entity_id |-> 2]>>
    /\ field_values = <<[id |-> 201, field_id |-> 1, list_entry_id |-> 101,
                         entity_id |-> 2, value |-> 1]>>
    /\ conv = [c \in Convs |-> IdleCall]
    /\ hist = [c \in Convs |-> <<>>]
    /\ n_faults = 0

\* agent_tools.add_company_to_list: add_organization_to_list_if_needed.
StartAddIfNeeded(c) ==
    /\ MayStart(c)
    /\ \E org \in Orgs :
         conv' = [conv EXCEPT ![c] =
                    [IdleCall EXCEPT !.pc = "aoe_get", !.kind = "add_if_needed",
                                     !.org = org]]
    /\ UNCHANGED <<list_entries, field_values, hist, n_faults>>
    /\ UNCHANGED <<agentVars, dispVars, trVars, pgVars, coVars>>

\* agent_tools.change_field_in_list: change_field_value_in_list.
StartChangeField(c) ==
    /\ MayStart(c)
    /\ \E org \in Orgs, f \in FieldInputs, v \in ValueInputs :
         conv' = [conv EXCEPT ![c] =
                    [IdleCall EXCEPT !.pc = "cf_get1", !.kind = "change_field",
                                     !.org = org, !.field = f, !.value = v,
                                     !.had_fv = FieldValuesAtCall(org, f)]]
    /\ UNCHANGED <<list_entries, field_values, hist, n_faults>>
    /\ UNCHANGED <<agentVars, dispVars, trVars, pgVars, coVars>>

\* dispatch_tool("add_company_to_list", ...) with a v1 client configured.
StartV1Add(c) ==
    /\ MayStart(c)
    /\ \E org \in Orgs :
         conv' = [conv EXCEPT ![c] =
                    [IdleCall EXCEPT !.pc = "v1_post", !.kind = "v1_add",
                                     !.org = org]]
    /\ UNCHANGED <<list_entries, field_values, hist, n_faults>>
    /\ UNCHANGED <<agentVars, dispVars, trVars, pgVars, coVars>>

\* add_organization_to_list_if_needed: existing = get_list_entry_id(...).
AoeGet(c) ==
    /\ conv[c].pc = "aoe_get"
    /\ \E resp \in ReadResponses :
         /\ Answer(resp)
         /\ LET r == conv[c]
                existing == get_list_entry_id(list_entries, r.org)
                ok == IF existing # 0
                      THEN IF r.via THEN Cont(Goto(r, "cf_get2"))
                           ELSE Done(r, "returned", "None")
                      ELSE Cont(Goto(r, "aoe_post"))
            IN  Apply(c, _request(r, resp, ok))
    /\ UNCHANGED <<list_entries, field_values>>
    /\ UNCHANGED <<agentVars, dispVars, trVars, pgVars, coVars>>

\* add_organization_to_list: POST /lists/{list_id}/list-entries.
AoePost(c) ==
    /\ conv[c].pc = "aoe_post"
    /\ \E resp \in WriteResponses :
         /\ Answer(resp)
         /\ list_entries' = IF resp.applied
                            THEN Append(list_entries, NewEntry(conv[c].org))
                            ELSE list_entries
         /\ LET r == [conv[c] EXCEPT !.adds = IF conv[c].attempt = 0 THEN @ + 1 ELSE @]
                ok == IF r.via THEN Cont(Goto(r, "cf_get2"))
                      ELSE Done(r, "returned", "entry")
            IN  Apply(c, _request(r, resp, ok))
    /\ UNCHANGED field_values
    /\ UNCHANGED <<agentVars, dispVars, trVars, pgVars, coVars>>

\* change_field_value_in_list: le_id = get_list_entry_id(...), first time.
CfGet1(c) ==
    /\ conv[c].pc = "cf_get1"
    /\ \E resp \in ReadResponses :
         /\ Answer(resp)
         /\ LET r == conv[c]
                le == get_list_entry_id(list_entries, r.org)
                ok == IF le = 0
                      THEN Cont(Goto([r EXCEPT !.via = TRUE], "aoe_get"))
                      ELSE Cont(Goto([r EXCEPT !.le_id = le], "cf_fields"))
            IN  Apply(c, _request(r, resp, ok))
    /\ UNCHANGED <<list_entries, field_values>>
    /\ UNCHANGED <<agentVars, dispVars, trVars, pgVars, coVars>>

\* change_field_value_in_list: le_id = get_list_entry_id(...) after the add.
CfGet2(c) ==
    /\ conv[c].pc = "cf_get2"
    /\ \E resp \in ReadResponses :
         /\ Answer(resp)
         /\ LET r == conv[c]
                le == get_list_entry_id(list_entries, r.org)
                ok == IF le = 0
                      THEN Done(r, "raised", "RuntimeError")
                      ELSE Cont(Goto([r EXCEPT !.le_id = le], "cf_fields"))
            IN  Apply(c, _request(r, resp, ok))
    /\ UNCHANGED <<list_entries, field_values>>
    /\ UNCHANGED <<agentVars, dispVars, trVars, pgVars, coVars>>

\* A change_field_value_in_list that takes the organization off the list
\* again when it fails.
EntriesRolledBack(entries, org) ==
    SelectSeq(entries, LAMBDA e : e.entity_id # org)

\* The list after change_field_value_in_list has raised: nothing is around
\* `field, field_id = ...; coerced_value = ...` to undo the add.
EntriesAfterRaise(entries, org) == entries

\* _get_field_details (GET /fields) for a numeric id, then
\* _coerce_value_for_field for the dropdown: an option text gives its id,
\* any other text reaches the fuzzy fallback, which raises.
CfFields(c) ==
    /\ conv[c].pc = "cf_fields"
    /\ \E resp \in ReadResponses :
         /\ Answer(resp)
         /\ LET r == conv[c]
                ok == IF r.field \notin ListFieldIds
                      THEN Done(r, "raised", "RuntimeError")
                      ELSE IF r.value \notin OptionTexts
                      THEN Done(r, "raised", "AttributeError")
                      ELSE Cont(Goto([r EXCEPT !.field_id = r.field,
                                               !.coerced = OptionId(r.value)],
                                     "cf_get_fv"))
                st == _request(r, resp, ok)
            IN  /\ Apply(c, st)
                /\ list_entries' = IF st.done /\ r.via
                                   THEN EntriesAfterRaise(list_entries, r.org)
                                   ELSE list_entries
    /\ UNCHANGED field_values
    /\ UNCHANGED <<agentVars, dispVars, trVars, pgVars, coVars>>

\* existing = [...get_field_values(organization_id=...)...]; if existing: ...
CfGetFv(c) ==
    /\ conv[c].pc = "cf_get_fv"
    /\ \E resp \in ReadResponses :
         /\ Answer(resp)
         /\ LET r == conv[c]
                existing == ExistingFieldValues(field_values, r.org, r.field_id, r.le_id)
                ok == IF existing # <<>>
                      THEN Cont(Goto([r EXCEPT !.fv_id = existing[1].id], "cf_put"))
                      ELSE Cont(Goto(r, "cf_post"))
            IN  Apply(c, _request(r, resp, ok))
    /\ UNCHANGED <<list_entries, field_values>>
    /\ UNCHANGED <<agentVars, dispVars, trVars, pgVars, coVars>>

\* update_field_value: PUT /field-values/{field_value_id}.
CfPut(c) ==
    /\ conv[c].pc = "cf_put"
    /\ \E resp \in WriteResponses :
         /\ Answer(resp)
         /\ field_values' =
              IF resp.applied
              THEN [i \in 1..Len(field_values) |->
                      IF field_values[i].id = conv[c].fv_id
                      THEN [field_values[i] EXCEPT !.value = conv[c].coerced]
                      ELSE field_values[i]]
              ELSE field_values
         /\ LET r == [conv[c] EXCEPT !.updates = IF conv[c].attempt = 0 THEN @ + 1 ELSE @]
            IN  Apply(c, _request(r, resp, Done(r, "returned", "field_value")))
    /\ UNCHANGED list_entries
    /\ UNCHANGED <<agentVars, dispVars, trVars, pgVars, coVars>>

\* create_field_value: POST /field-values.
CfPost(c) ==
    /\ conv[c].pc = "cf_post"
    /\ \E resp \in WriteResponses :
         /\ Answer(resp)
         /\ field_values' =
              IF resp.applied
              THEN Append(field_values,
                     NewFieldValue(conv[c].field_id, conv[c].coerced,
                                   conv[c].org, conv[c].le_id))
              ELSE field_values
         /\ LET r == [conv[c] EXCEPT !.creates = IF conv[c].attempt = 0 THEN @ + 1 ELSE @]
            IN  Apply(c, _request(r, resp, Done(r, "returned", "field_value")))
    /\ UNCHANGED list_entries
    /\ UNCHANGED <<agentVars, dispVars, trVars, pgVars, coVars>>

\* AffinityV1.add_company_to_list: POST /lists/{list_id}/list-entries, with
\* no membership check before it.
V1Post(c) ==
    /\ conv[c].pc = "v1_post"
    /\ \E resp \in WriteResponses :
         /\ Answer(resp)
         /\ list_entries' = IF resp.applied
                            THEN Append(list_entries, NewEntry(conv[c].org))
                            ELSE list_entries
         /\ LET r == [conv[c] EXCEPT !.adds = IF conv[c].attempt = 0 THEN @ + 1 ELSE @]
            IN  Apply(c, V1Req(r, resp, Done(r, "returned", "entry")))
    /\ UNCHANGED field_values
    /\ UNCHANGED <<agentVars, dispVars, trVars, pgVars, coVars>>

ApiNext ==
    \E c \in Convs :
       \/ StartAddIfNeeded(c)
       \/ StartChangeField(c)
       \/ StartV1Add(c)
       \/ AoeGet(c)
       \/ AoePost(c)
       \/ CfGet1(c)
       \/ CfGet2(c)
       \/ CfFields(c)
       \/ CfGetFv(c)
       \/ CfPut(c)
       \/ CfPost(c)
       \/ V1Post(c)

InitApi == ApiInit /\ AgentIdle /\ DispIdle /\ TrIdle /\ PgIdle /\ CoIdle

SpecApi == InitApi /\ [][ApiNext]_vars

(***************************************************************************)
(* One transport call against a feed of responses.                         *)
(*   "AffinityAPI"  AffinityAPI._request   (src/affinity_client.py)        *)
(*   "AffinityV2"   AffinityV2._req        (src/affinity/client_v2.py)     *)
(*   "ClientV2"     AffinityV2._req        (src/client_v2.py)              *)
(*   "AffinityV1"   AffinityV1._req        (src/affinity/client_v1.py)     *)
(***************************************************************************)
Transports == {"AffinityAPI", "AffinityV2", "ClientV2", "AffinityV1"}

\* The responses a remote gives: status and whether the body has content.
Responses ==
    {[status |-> 200, body |-> "json"], [status |-> 200, body |-> "empty"],
     [status |-> 204, body |-> "empty"],
     [status |-> 401, body |-> "json"], [status |-> 403, body |-> "json"],
     [status |-> 404, body |-> "json"], [status |-> 422, body |-> "json"],
     [status |-> 429, body |-> "json"], [status |-> 500, body |-> "json"],
     [status |-> 503, body |-> "json"]}

\* The responses the remote gives to the first, second and third request.
Feeds == [1..retries -> Responses]

\* What a call returns or raises: its kind, and the request whose response
\* it carries (0 when it carries none).
Value(tag, at) == [tag |-> tag, at |-> at]

\* A _check that lets a client without a key through.
CheckPasses(has_key) == "ok"

\* _check of AffinityV1 and AffinityV2: raises without a key.
_check(has_key) == IF has_key THEN "ok" ELSE "RuntimeError"

TrInit ==
    \E k \in Transports, f \in Feeds, key \in BOOLEAN :
       tr = [pc |-> "call", kind |-> k, feed |-> f, has_key |-> key,
             attempt |-> 0, n_requests |-> 0, outcome |-> "none",
             value |-> Value("none", 0)]

TrDone(outcome, value, n) ==
    [tr EXCEPT !.pc = "done", !.outcome = outcome, !.value = value,
               !.n_requests = n]

\* The exception AffinityV2._req raises for a status >= 400.
V2Error(status) ==
    CASE status = 401 -> "401 Unauthorized"
      [] status = 403 -> "403 Forbidden"
      [] status = 429 -> "429 Rate Limited"
      [] status >= 400 /\ status < 500 -> "client error"
      [] OTHER -> "server error"

\* AffinityAPI: the constructor raises without a key; each pass of the loop
\* of _request sends one request.
TrAffinityAPI ==
    /\ tr.pc = "call" /\ tr.kind = "AffinityAPI"
    /\ IF ~tr.has_key
       THEN tr' = TrDone("raise", Value("ValueError", 0), 0)
       ELSE LET resp == tr.feed[tr.attempt + 1]
                n == tr.n_requests + 1
                a == RequestAttempt(resp.status, tr.attempt)
            IN  tr' = CASE a = "retry" ->
                             [tr EXCEPT !.attempt = @ + 1, !.n_requests = n]
                        [] a = "raise" ->
                             TrDone("raise", Value("RuntimeError", n), n)
                        [] a = "return" ->
                             TrDone("return",
                                    IF resp.body = "empty" THEN Value("None", n)
                                    ELSE Value("payload", n), n)
                        [] OTHER -> TrDone("raise", Value("HTTPError", n), n)
    /\ UNCHANGED <<agentVars, dispVars, apiVars, pgVars, coVars>>

\* AffinityV2._req of src/affinity/client_v2.py: _check, one request, and the
\* result by status; nothing is tried again.
TrAffinityV2 ==
    /\ tr.pc = "call" /\ tr.kind = "AffinityV2"
    /\ IF _check(tr.has_key) # "ok"
       THEN tr' = TrDone("raise", Value(_check(tr.has_key), 0), 0)
       ELSE LET resp == tr.feed[1]
            IN  tr' = IF resp.status \in {204, 205}
                      THEN TrDone("return", Value("{}", 1), 1)
                      ELSE IF resp.status < 400
                      THEN TrDone("return",
                                  IF resp.body = "empty" THEN Value("{}", 1)
                                  ELSE Value("payload", 1), 1)
                      ELSE TrDone("raise", Value(V2Error(resp.status), 1), 1)
    /\ UNCHANGED <<agentVars, dispVars, apiVars, pgVars, coVars>>

\* A _req under @retry(stop=stop_after_attempt(3)): each attempt runs _check
\* and, with a key, sends one request; an exception ends the attempt and the
\* next one starts, until the last, after which tenacity raises RetryError
\* holding the last attempt (reraise is not set).
TenacityReq ==
    LET resp == tr.feed[tr.attempt + 1]
        sent == _check(tr.has_key) = "ok"
        n == tr.n_requests + (IF sent THEN 1 ELSE 0)
        st == IF sent THEN resp.status ELSE 400
        a == V1ReqAttempt(st, tr.attempt)
    IN  tr' = CASE a = "retry" ->
                     [tr EXCEPT !.attempt = @ + 1, !.n_requests = n]
                [] a = "raise" -> TrDone("raise", Value("RetryError", n), n)
                [] OTHER ->
                     TrDone("return",
                            IF resp.body = "empty" THEN Value("{}", n)
                            ELSE Value("payload", n), n)

\* AffinityV2._req of src/client_v2.py.
TrClientV2 ==
    /\ tr.pc = "call" /\ tr.kind = "ClientV2"
    /\ TenacityReq
    /\ UNCHANGED <<agentVars, dispVars, apiVars, pgVars, coVars>>

\* AffinityV1._req.
TrAffinityV1 ==
    /\ tr.pc = "call" /\ tr.kind = "AffinityV1"
    /\ TenacityReq
    /\ UNCHANGED <<agentVars, dispVars, apiVars, pgVars, coVars>>

TrNext == TrAffinityAPI \/ TrAffinityV2 \/ TrClientV2 \/ TrAffinityV1

InitTransport == TrInit /\ AgentIdle /\ DispIdle /\ ApiIdle /\ PgIdle /\ CoIdle

SpecTransport == InitTransport /\ [][TrNext]_vars

(***************************************************************************)
(* Paginated scans of the v2 clients against a feed of pages.              *)
(*   "affinity/client_v2"  src/affinity/client_v2.py                       *)
(*   "client_v2"           src/client_v2.py                                *)
(***************************************************************************)
\* `seen > 25` in find_list_id_by_name
PAGE_CEILING == 25
\* find_company(..., max_pages: int = 10)
DEFAULT_MAX_PAGES == 10
\* Pages a scan without a bound of its own is followed for.
PageCap == 27

Variants == {"affinity/client_v2", "client_v2"}

\* A feed has `total` pages, the last without nextUrl; total = 0 is a feed
\* whose every page carries nextUrl with a cursor.
Totals == 0..PageCap
\* The pages that may hold an item matching the query.
MatchCandidates == {1, 2, DEFAULT_MAX_PAGES + 1, PAGE_CEILING + 1}
\* max_pages as given by a caller of find_company.
MaxPagesInputs == {0, 1, DEFAULT_MAX_PAGES}

\* (data.get("pagination") or {}).get("nextUrl") of page i, through
\* _extract_cursor where the variant has it: is there a cursor to go on with.
NextCursor(total, i) == total = 0 \/ i < total

PgCall(op, variant, total, match_pages, has_query, max_pages) ==
    [pc |-> "fetch", op |-> op, variant |-> variant, total |-> total,
     match_pages |-> match_pages, has_query |-> has_query,
     max_pages |-> max_pages, seen |-> 0, matches |-> {}, ret |-> NoVal,
     outcome |-> NoVal, entries |-> <<>>]

\* Calls as dispatch_tool and other callers make them; find_company of
\* src/client_v2.py has no max_pages parameter.
PgInit ==
    \E variant \in Variants, total \in Totals, mp \in SUBSET MatchCandidates :
       \/ /\ variant = "affinity/client_v2" /\ mp = {}
          /\ pg = PgCall("get_list_entries", "affinity_client", total, mp, TRUE,
                         DEFAULT_MAX_PAGES)
       \/ pg = PgCall("find_list_id_by_name", variant, total, mp, TRUE,
                      DEFAULT_MAX_PAGES)
       \/ \E q \in BOOLEAN, max_pages \in MaxPagesInputs :
            /\ variant = "client_v2" => max_pages = DEFAULT_MAX_PAGES
            /\ pg = PgCall("find_company", variant, total, mp, q, max_pages)

\* One pass of the while-loop: the page is fetched, its matching items are
\* appended, and the loop ends when `stop` holds.
FetchPage(stop) ==
    LET i == pg.seen + 1
        m == pg.matches \cup (IF i \in pg.match_pages THEN {i} ELSE {})
    IN  pg' = [pg EXCEPT !.seen = i, !.matches = m,
                         !.pc = IF stop THEN "done" ELSE "fetch",
                         !.ret = IF stop THEN "matches" ELSE NoVal,
                         !.outcome = IF stop THEN "return" ELSE NoVal]

\* `if not cursor or seen > 25: break`, seen counting the page just fetched.
FindListStop(cursor, seen) == ~cursor \/ seen > PAGE_CEILING

\* find_list_id_by_name of src/affinity/client_v2.py.
FindListIdByName ==
    /\ pg.pc = "fetch" /\ pg.op = "find_list_id_by_name"
    /\ pg.variant = "affinity/client_v2"
    /\ FetchPage(FindListStop(NextCursor(pg.total, pg.seen + 1), pg.seen + 1))
    /\ UNCHANGED <<agentVars, dispVars, apiVars, trVars, coVars>>

\* find_list_id_by_name of src/client_v2.py: `if not cursor: break` only.
FindListIdByNameUnbounded ==
    /\ pg.pc = "fetch" /\ pg.op = "find_list_id_by_name"
    /\ pg.variant = "client_v2"
    /\ pg.seen < PageCap
    /\ FetchPage(~NextCursor(pg.total, pg.seen + 1))
    /\ UNCHANGED <<agentVars, dispVars, apiVars, trVars, coVars>>

\* A find_company that scans whatever it is given.
NoQueryNever(has_query) == FALSE

\* `not name and not domain`
NoQuery(has_query) == ~has_query

\* `if not name and not domain: return {"error": "Provide name or domain"}`
FindCompanyNoQuery ==
    /\ pg.pc = "fetch" /\ pg.op = "find_company"
    /\ NoQuery(pg.has_query)
    /\ pg' = [pg EXCEPT !.pc = "done", !.ret = "error", !.outcome = "return"]
    /\ UNCHANGED <<agentVars, dispVars, apiVars, trVars, coVars>>

\* A loop that ends after its first pass.
FindCompanyStopAfterOne(cursor, pages, max_pages) == TRUE

\* `if not cursor or pages >= max_pages: break`, pages counting the page
\* just fetched.
FindCompanyStop(cursor, pages, max_pages) == ~cursor \/ pages >= max_pages

\* find_company of src/affinity/client_v2.py.
FindCompany ==
    /\ pg.pc = "fetch" /\ pg.op = "find_company"
    /\ pg.variant = "affinity/client_v2"
    /\ ~NoQuery(pg.has_query)
    /\ FetchPage(FindCompanyStop(NextCursor(pg.total, pg.seen + 1),
                                 pg.seen + 1, pg.max_pages))
    /\ UNCHANGED <<agentVars, dispVars, apiVars, trVars, coVars>>

\* find_company of src/client_v2.py: the loop breaks after its first pass,
\* with or without nextUrl.
FindCompanySinglePage ==
    /\ pg.pc = "fetch" /\ pg.op = "find_company"
    /\ pg.variant = "client_v2"
    /\ ~NoQuery(pg.has_query)
    /\ FetchPage(TRUE)
    /\ UNCHANGED <<agentVars, dispVars, apiVars, trVars, coVars>>

\* A get_list_entries with the page ceiling of find_list_id_by_name.
GetListEntriesStopAtCeiling(next_token, pages) ==
    ~next_token \/ pages > PAGE_CEILING

\* `if not next_token: break`, however many pages were requested.
GetListEntriesStop(next_token, pages) == ~next_token

\* AffinityAPI.get_list_entries, one pass of its while-loop: the page is
\* requested and its entries are added at the end; page i of the feed holds
\* the entry i, and the feed's next_page_token is its cursor.
GetListEntries ==
    /\ pg.pc = "fetch" /\ pg.op = "get_list_entries"
    /\ pg.seen < PageCap
    /\ LET i == pg.seen + 1
           stop == GetListEntriesStop(NextCursor(pg.total, i), i)
       IN  pg' = [pg EXCEPT !.seen = i,
                            !.entries = Append(@, i),
                            !.pc = IF stop THEN "done" ELSE "fetch",
                            !.ret = IF stop THEN "entries" ELSE NoVal,
                            !.outcome = IF stop THEN "return" ELSE NoVal]
    /\ UNCHANGED <<agentVars, dispVars, apiVars, trVars, coVars>>

PgNext ==
    \/ GetListEntries
    \/ FindListIdByName
    \/ FindListIdByNameUnbounded
    \/ FindCompanyNoQuery
    \/ FindCompany
    \/ FindCompanySinglePage

InitPages == PgInit /\ AgentIdle /\ DispIdle /\ ApiIdle /\ TrIdle /\ CoIdle

SpecPages == InitPages /\ [][PgNext]_vars

\* A call that has started goes on: the loops are synchronous code.
SpecPagesFair == SpecPages /\ WF_vars(PgNext)

(***************************************************************************)
(* Text as the coercion code handles it: a str is a sequence of            *)
(* characters.                                                             *)
(***************************************************************************)
Alphabet == {"a", "b", "A", "1", ",", " "}
\* Longest raw string value given to the coercion.
MaxLen == 3

Strings(n) == UNION {[1..k -> Alphabet] : k \in 0..n}

IsSpace(c) == c = " "
IsDigitChar(c) == c = "1"
LowerChar(c) == IF c = "A" THEN "a" ELSE c

\* str.strip()
strip(s) ==
    LET idx == {i \in 1..Len(s) : ~IsSpace(s[i])}
    IN  IF idx = {} THEN <<>>
        ELSE SubSeq(s, CHOOSE i \in idx : \A j \in idx : i <= j,
                       CHOOSE i \in idx : \A j \in idx : i >= j)

\* str.lower()
lower(s) == [i \in 1..Len(s) |-> LowerChar(s[i])]

\* normalize(s) = str(s).strip().lower()
normalize(s) == lower(strip(s))

\* str.isdigit()
isdigit(s) == s # <<>> /\ \A i \in 1..Len(s) : IsDigitChar(s[i])

\* int(s) for a string of digits.
RECURSIVE IntOf(_)
IntOf(s) ==
    IF s = <<>> THEN 0
    ELSE 10 * IntOf(SubSeq(s, 1, Len(s) - 1)) + 1

\* `key in txt` for two strings.
Contains(key, txt) ==
    \E i \in 0..(Len(txt) - Len(key)) : SubSeq(txt, i + 1, i + Len(key)) = key

\* s.split(",")
RECURSIVE SplitComma(_)
SplitComma(s) ==
    LET idx == {i \in 1..Len(s) : s[i] = ","}
    IN  IF idx = {} THEN <<s>>
        ELSE LET i == CHOOSE k \in idx : \A j \in idx : k <= j
             IN  <<SubSeq(s, 1, i - 1)>> \o SplitComma(SubSeq(s, i + 1, Len(s)))

\* [v.strip() for v in value.split(",") if v.strip()]
Pieces(s) ==
    LET parts == SplitComma(s)
        stripped == [i \in 1..Len(parts) |-> strip(parts[i])]
    IN  SelectSeq(stripped, LAMBDA v : v # <<>>)

(***************************************************************************)
(* AffinityAPI._coerce_value_for_field (src/affinity_client.py).           *)
(***************************************************************************)
\* Raw and coerced values, by Python type.
StrVal(s) == [type |-> "str", s |-> s, n |-> 0, items |-> <<>>]
IntVal(n) == [type |-> "int", s |-> <<>>, n |-> n, items |-> <<>>]
BoolVal(b) == [type |-> "bool", s |-> <<>>, n |-> IF b THEN 1 ELSE 0, items |-> <<>>]
ListVal(items) == [type |-> "list", s |-> <<>>, n |-> 0, items |-> items]
NoneVal == [type |-> "None", s |-> <<>>, n |-> 0, items |-> <<>>]

\* How a call ends: it returns a value or raises.
CoReturn(v) == [kind |-> "return", value |-> v, exc |-> NoVal]
CoRaise(e) == [kind |-> "raise", value |-> NoneVal, exc |-> e]

\* One entry of by_text.
Entry(key, id) == [key |-> key, id |-> id]

\* by_text = {normalize(o.get("text")): int(o.get("id")) for o in options}:
\* a dict keeps the place of a key's first insertion and the value of its
\* last.
RECURSIVE by_text(_)
by_text(options) ==
    IF options = <<>> THEN <<>>
    ELSE LET n == Len(options)
             bt == by_text(SubSeq(options, 1, n - 1))
             key == normalize(options[n].text)
         IN  IF \E i \in 1..Len(bt) : bt[i].key = key
             THEN [i \in 1..Len(bt) |->
                     IF bt[i].key = key THEN Entry(key, options[n].id) ELSE bt[i]]
             ELSE Append(bt, Entry(key, options[n].id))

\* The first of the places `idx` of a dict or list in iteration order, 0 for
\* none.
FirstOf(idx) == IF idx = {} THEN 0 ELSE CHOOSE i \in idx : \A j \in idx : i <= j

\* self._closest_option(options, s): AffinityAPI defines no such method, so
\* the attribute lookup raises.
_closest_option(options, s) == CoRaise("AttributeError")

\* fuzzy_one(s, min_score=0.6): `best, score = self._closest_option(...)`
\* comes first, so its exception leaves fuzzy_one before the score is
\* compared with min_score; otherwise the best option's id or None.
fuzzy_one(options, s) ==
    LET c == _closest_option(options, s)
    IN  IF c.kind = "raise" THEN c ELSE CoReturn(c.value)

\* The fuzzy fallback and the raise after it, shared by both branches.
FuzzyOrRaise(options, v) ==
    LET fz == fuzzy_one(options, v)
    IN  IF fz.kind = "raise" THEN fz
        ELSE IF fz.value.type # "None" THEN fz
        ELSE CoRaise("RuntimeError")

\* Dropdown (single), a str value: exact match, substring fallback, numeric
\* id as text, fuzzy fallback, raise.
CoerceSingle(options, value) ==
    LET bt == by_text(options)
        key == normalize(value)
        exact == FirstOf({i \in 1..Len(bt) : bt[i].key = key})
        sub == FirstOf({i \in 1..Len(bt) : Contains(key, bt[i].key)})
    IN  IF exact # 0 THEN CoReturn(IntVal(bt[exact].id))
        ELSE IF sub # 0 THEN CoReturn(IntVal(bt[sub].id))
        ELSE IF isdigit(value) THEN CoReturn(IntVal(IntOf(value)))
        ELSE FuzzyOrRaise(options, value)

\* Multi-select, one element of the list: an int is kept; otherwise exact
\* match, substring, fuzzy fallback, raise.
CoerceElement(options, v) ==
    IF v.type = "int" THEN CoReturn(v)
    ELSE LET bt == by_text(options)
             vkey == normalize(v.s)
             exact == FirstOf({i \in 1..Len(bt) : bt[i].key = vkey})
             sub == FirstOf({i \in 1..Len(bt) : Contains(vkey, bt[i].key)})
         IN  IF exact # 0 THEN CoReturn(IntVal(bt[exact].id))
             ELSE IF sub # 0 THEN CoReturn(IntVal(bt[sub].id))
             ELSE FuzzyOrRaise(options, v.s)

\* A multi-select loop that appends in front.
RECURSIVE CoerceListReversed(_, _)
CoerceListReversed(options, items) ==
    IF items = <<>> THEN CoReturn(ListVal(<<>>))
    ELSE LET n == Len(items)
             front == CoerceListReversed(options, SubSeq(items, 1, n - 1))
         IN  IF front.kind = "raise" THEN front
             ELSE LET e == CoerceElement(options, items[n])
                  IN  IF e.kind = "raise" THEN e
                      ELSE CoReturn(ListVal(<<e.value>> \o front.value.items))

\* Multi-select: the for-loop over the list; the first element that cannot
\* be resolved raises, otherwise `out` is returned.
RECURSIVE CoerceList(_, _)
CoerceList(options, items) ==
    IF items = <<>> THEN CoReturn(ListVal(<<>>))
    ELSE LET n == Len(items)
             front == CoerceList(options, SubSeq(items, 1, n - 1))
         IN  IF front.kind = "raise" THEN front
             ELSE LET e == CoerceElement(options, items[n])
                  IN  IF e.kind = "raise" THEN e
                      ELSE CoReturn(ListVal(Append(front.value.items, e.value)))

\* The branches for fields without options: numbers, booleans, pass-through.
CoercePlain(value_type, value) ==
    IF value_type = "number" /\ value.type = "str" /\ isdigit(strip(value.s))
    THEN CoReturn(IntVal(IntOf(strip(value.s))))
    ELSE IF value_type = "boolean" /\ value.type = "str"
            /\ normalize(value.s) = <<"1">>
    THEN CoReturn(BoolVal(TRUE))
    ELSE CoReturn(value)

\* _coerce_value_for_field(field, value)
_coerce_value_for_field(field, value) ==
    LET options == field.options
        v == IF options # <<>> /\ value.type = "str"
                /\ \E i \in 1..Len(value.s) : value.s[i] = ","
             THEN LET ps == Pieces(value.s)
                  IN  ListVal([i \in 1..Len(ps) |-> StrVal(ps[i])])
             ELSE value
    IN  IF options # <<>> /\ v.type = "str" THEN CoerceSingle(options, v.s)
        ELSE IF options # <<>> /\ v.type = "int" THEN CoReturn(v)
        ELSE IF options # <<>> /\ v.type = "list" THEN CoerceList(options, v.items)
        ELSE CoercePlain(field.value_type, v)

(***************************************************************************)
(* AffinityAPI._get_field_details (src/affinity_client.py).                *)
(***************************************************************************)
\* A field of a list as GET /fields returns it.
Field(id, name, value_type, options) ==
    [id |-> id, name |-> name, value_type |-> value_type, options |-> options]

\* The (field_obj, field_id) pair a lookup returns.
FieldVal(f) == [type |-> "field", s |-> f.name, n |-> f.id, items |-> <<>>]

\* for f in fields: if nm == target or target in nm: return f
NameMatch(fields, target) ==
    FirstOf({i \in 1..Len(fields) :
               \/ normalize(fields[i].name) = target
               \/ Contains(target, normalize(fields[i].name))})

\* _get_field_details(list_id, field_name_or_id), `fields` being what
\* get_fields returns for the list.
_get_field_details(fields, field_name_or_id) ==
    IF field_name_or_id.type = "int" \/ isdigit(field_name_or_id.s)
    THEN LET field_id == IF field_name_or_id.type = "int" THEN field_name_or_id.n
                         ELSE IntOf(field_name_or_id.s)
             at == FirstOf({i \in 1..Len(fields) : fields[i].id = field_id})
         IN  IF at = 0 THEN CoRaise("RuntimeError") ELSE CoReturn(FieldVal(fields[at]))
    ELSE LET at == NameMatch(fields, normalize(field_name_or_id.s))
         IN  IF at = 0 THEN CoRaise("RuntimeError") ELSE CoReturn(FieldVal(fields[at]))

(***************************************************************************)
(* SpecCoerce: calls of _coerce_value_for_field and _get_field_details.    *)
(***************************************************************************)
\* Calls of _coerce_value_for_field made with the same field and value.
MaxCoerceCalls == 2
\* Longest list value given to the coercion.
MaxListLen == 2

Opt(id, text) == [id |-> id, text |-> text]

\* dropdown_options of the dropdown fields coerced against.
OptionLists ==
    { <<Opt(1, <<"a", "b">>), Opt(2, <<"a">>)>>,
      <<Opt(1, <<"A">>), Opt(2, <<"a">>)>>,
      <<Opt(1, <<"a", ",", "b">>), Opt(2, <<"b">>)>>,
      <<Opt(2, <<"1">>), Opt(1, <<"b">>)>>,
      <<Opt(1, <<"a">>), Opt(2, <<"b", " ">>)>> }

\* Fields coerced against: dropdowns, and fields without options.
CoerceFields ==
    {Field(1, <<"a">>, "dropdown", ol) : ol \in OptionLists}
    \cup {Field(1, <<"a">>, vt, <<>>) : vt \in {"number", "boolean", "text"}}

\* Elements of list values.
ListElements == {StrVal(<<"a">>), StrVal(<<"b">>), StrVal(<<"1", "1">>), IntVal(7)}

\* Raw values given to the coercion.
CoerceValues ==
    {StrVal(s) : s \in Strings(MaxLen)}
    \cup {IntVal(1), IntVal(7)}
    \cup {ListVal(l) : l \in UNION {[1..k -> ListElements] : k \in 0..MaxListLen}}

\* `score >= min_score` for the value against its closest option, as a
\* similarity scorer would find it.
Similarities == {"below", "at_or_above"}

\* What get_fields returns for the lists looked into.
FieldLists ==
    { <<Field(1, <<"a", "b">>, "text", <<>>), Field(2, <<"a">>, "text", <<>>)>>,
      <<Field(1, <<"a">>, "text", <<>>), Field(2, <<"a", "b">>, "text", <<>>)>>,
      <<Field(1, <<"A", " ">>, "text", <<>>), Field(3, <<"b">>, "text", <<>>)>> }

\* field_name_or_id inputs.
NameOrIdInputs == {StrVal(s) : s \in Strings(MaxLen)} \cup {IntVal(n) : n \in 1..3}

CoCall(op, field, fields, value, sim) ==
    [pc |-> "ready", op |-> op, field |-> field, fields |-> fields,
     value |-> value, sim |-> sim, requests |-> 0, outs |-> <<>>]

CoInit ==
    co \in {CoCall("coerce", f, <<>>, v, sim) :
              f \in CoerceFields, v \in CoerceValues, sim \in Similarities}
           \cup {CoCall("field_details", Field(0, <<>>, "text", <<>>), fs, v, "below") :
                   fs \in FieldLists, v \in NameOrIdInputs}

\* A multi-select loop that empties the list it is given.
CallerValueConsumed(value) ==
    IF value.type = "list" THEN ListVal(<<>>) ELSE value

\* The caller's value object after the call: line 303 rebinds the local
\* name `value`, and the loops only read.
CallerValue(value) == value

\* One call of _coerce_value_for_field(field, value).
Coerce ==
    /\ co.pc = "ready" /\ co.op = "coerce"
    /\ Len(co.outs) < MaxCoerceCalls
    /\ co' = [co EXCEPT !.outs = Append(@, _coerce_value_for_field(co.field, co.value)),
                        !.value = CallerValue(@)]
    /\ UNCHANGED <<agentVars, dispVars, apiVars, trVars, pgVars>>

\* One call of _get_field_details: one get_fields request, then the lookup.
GetFieldDetails ==
    /\ co.pc = "ready" /\ co.op = "field_details"
    /\ co.outs = <<>>
    /\ co' = [co EXCEPT !.requests = @ + 1,
                        !.outs = Append(@, _get_field_details(co.fields, co.value))]
    /\ UNCHANGED <<agentVars, dispVars, apiVars, trVars, pgVars>>

CoNext == Coerce \/ GetFieldDetails

InitCoerce == CoInit /\ AgentIdle /\ DispIdle /\ ApiIdle /\ TrIdle /\ PgIdle

SpecCoerce == InitCoerce /\ [][CoNext]_vars

(***************************************************************************)
(* Claims about Agent.run and dispatch_tool.                               *)
(***************************************************************************)
IsToolRequest(t) == t.role = "assistant" /\ t.tool_calls # <<>>

\* Index of the first assistant turn after position a, or one past the end.
NextAssistant(a) ==
    LET later == {b \in (a + 1)..Len(chat_messages) :
                     chat_messages[b].role = "assistant"}
    IN  IF later = {} THEN Len(chat_messages) + 1
        ELSE CHOOSE b \in later : \A c \in later : b <= c

\* Index of the nearest tool-request turn before position t, or 0.
PrevToolRequest(t) ==
    LET earlier == {a \in 1..(t - 1) : IsToolRequest(chat_messages[a])}
    IN  IF earlier = {} THEN 0
        ELSE CHOOSE a \in earlier : \A c \in earlier : c <= a

\* C1: whenever the model is about to be invoked, every tool call of every
\* assistant tool-request turn has exactly one tool-result turn with its call
\* id between that turn and the next assistant turn, and every tool-result turn
\* carries a call id of the nearest preceding tool-request turn.
C1_ToolResultsPaired ==
    pc = "awaiting" =>
      /\ \A a \in 1..Len(chat_messages) :
           IsToolRequest(chat_messages[a]) =>
             \A j \in 1..Len(chat_messages[a].tool_calls) :
               Cardinality({t \in (a + 1)..(NextAssistant(a) - 1) :
                   /\ chat_messages[t].role = "tool"
                   /\ chat_messages[t].tool_call_id =
                        chat_messages[a].tool_calls[j].id}) = 1
      /\ \A t \in 1..Len(chat_messages) :
           chat_messages[t].role = "tool" =>
             /\ PrevToolRequest(t) # 0
             /\ \E j \in 1..Len(chat_messages[PrevToolRequest(t)].tool_calls) :
                  chat_messages[PrevToolRequest(t)].tool_calls[j].id =
                    chat_messages[t].tool_call_id

\* C1 witness: the model is invoked after two tool-request turns, the second
\* with two calls and reusing a call id of the first.
C1_Witness ==
    /\ pc = "awaiting"
    /\ \E a, b \in 1..Len(chat_messages) :
         /\ a < b
         /\ IsToolRequest(chat_messages[a])
         /\ IsToolRequest(chat_messages[b])
         /\ Len(chat_messages[b].tool_calls) = 2
         /\ chat_messages[a].tool_calls[1].id = chat_messages[b].tool_calls[2].id

\* C2: the loop stops within the supplied maximum turn count: at no time has
\* the model been invoked more often than MaxTurns.
C2_BoundedByMaxTurns == n_invocations <= MaxTurns

\* C3: dispatch_tool returns a value, a payload or an {error: ...} object,
\* for every tool name, argument string and client failure; it never raises.
C3_DispatchNeverRaises ==
    d_out.kind # "none" =>
      /\ d_out.kind = "return"
      /\ d_out.tag \in {"payload", "error"}

\* C3 witness: the v1 fallback of find_company_id fails inside the handler of
\* the PermissionError and the dispatcher still returns an error object.
C3_Witness ==
    /\ d_out.kind # "none"
    /\ d_in.name = "find_company_id" /\ d_in.args_json = "valid"
    /\ d_in.v1 /\ d_in.v2out = "PermissionError"
    /\ d_out.kind = "return" /\ d_out.tag = "error"

\* Number of tool turns in the conversation.
NumToolTurns ==
    Cardinality({t \in 1..Len(chat_messages) : chat_messages[t].role = "tool"})

\* Calls of the current response whose result turn is appended.
NumAppended ==
    IF pc \in {"executing", "dispatched"} THEN tc_index - 1
    ELSE Len(msg_tool_calls)

\* Calls of the current response dispatched so far.
NumDispatched == NumAppended + (IF pc = "dispatched" THEN 1 ELSE 0)

\* C8: within one model turn the tools are dispatched one at a time in the
\* order listed: the result turns after the request turn are those of the
\* first calls, in order, each with its call's id and name; a call is
\* dispatched only when the results of all earlier calls are appended.
C8_SequentialInOrder ==
    msg_tool_calls # <<>> =>
      LET a == Len(chat_messages) - NumAppended
      IN  /\ a >= 1
          /\ chat_messages[a].role = "assistant"
          /\ chat_messages[a].tool_calls = msg_tool_calls
          /\ \A j \in 1..NumAppended :
               /\ chat_messages[a + j].role = "tool"
               /\ chat_messages[a + j].tool_call_id = msg_tool_calls[j].id
               /\ chat_messages[a + j].name = msg_tool_calls[j].name
          /\ Len(tool_events) = NumToolTurns + (IF pc = "dispatched" THEN 1 ELSE 0)
          /\ \A j \in 1..NumDispatched :
               LET e == tool_events[Len(tool_events) - NumDispatched + j]
               IN  /\ e.name = msg_tool_calls[j].name
                   /\ e.args = msg_tool_calls[j].arguments

\* C8 witness: the second call of a response with two different calls is
\* dispatched, the first call's result turn being appended.
C8_Witness ==
    /\ pc = "dispatched" /\ tc_index = 2
    /\ msg_tool_calls[1].name # msg_tool_calls[2].name
    /\ chat_messages[Len(chat_messages)].role = "tool"
    /\ chat_messages[Len(chat_messages)].tool_call_id = msg_tool_calls[1].id

\* The state of the loop's state machine.
LoopState(p) ==
    CASE p = "awaiting" -> "Awaiting-Model"
      [] p \in {"executing", "dispatched"} -> "Executing-Tools"
      [] p = "final" -> "Final-Answer"
      [] OTHER -> "other"

C9_Step ==
    \/ /\ LoopState(pc) = "Awaiting-Model" /\ LoopState(pc') = "Final-Answer"
       /\ final' # NoVal
       /\ n_invocations' = n_invocations + 1
       /\ UNCHANGED <<chat_messages, tool_events>>
    \/ /\ LoopState(pc) = "Awaiting-Model" /\ LoopState(pc') = "Executing-Tools"
       /\ Len(msg_tool_calls') >= 1
       /\ n_invocations' = n_invocations + 1
       /\ UNCHANGED tool_events
    \/ /\ LoopState(pc) = "Executing-Tools" /\ LoopState(pc') = "Executing-Tools"
       /\ UNCHANGED <<n_invocations, final, msg_tool_calls>>
    \/ /\ LoopState(pc) = "Executing-Tools" /\ LoopState(pc') = "Awaiting-Model"
       /\ tc_index = Len(msg_tool_calls)
       /\ Len(tool_events') >= Len(msg_tool_calls)
       /\ UNCHANGED <<n_invocations, final, msg_tool_calls>>

\* C9: the loop is the state machine Awaiting-Model -> Final-Answer (a response
\* without tool calls; the text is returned and nothing happens afterwards),
\* Awaiting-Model -> Executing-Tools (a response with tool calls) and
\* Executing-Tools -> Awaiting-Model (once every requested tool has executed);
\* there is no other transition.
C9_StateMachine == [][C9_Step]_vars

\* C9 witness: run has returned the model's text after a turn of tool calls.
C9_Witness ==
    /\ pc = "final" /\ final = "answer"
    /\ n_invocations = 2
    /\ Len(tool_events) = 2

\* C17: for a name outside the tool catalog dispatch_tool returns the error
\* object for an unknown tool, whatever the argument string, and calls no
\* method of either client.
C17_UnknownToolError ==
    (d_out.kind # "none" /\ d_in.name \notin TOOL_SCHEMAS) =>
      d_out = Return("error", "Unknown tool", <<>>)

\* C17 witness: an unknown name with an argument string that is not JSON has
\* been answered with the unknown-tool error.
C17_Witness ==
    /\ d_in.name = "unknown_action" /\ d_in.args_json = "malformed"
    /\ d_out.kind = "return" /\ d_out.detail = "Unknown tool"

\* The argument string is not JSON, or fails the schema of the tool: a
\* required field is missing, or a field has a value of a wrong type.
InvalidArgs(name, args_json) ==
    \/ args_json = "malformed"
    \/ args_json = "empty" /\ name \notin {"find_company_id", "auth_whoami"}
    \/ args_json = "wrong_type" /\ name # "auth_whoami"

\* C18: for a catalogued tool and an argument string that is malformed or
\* fails the schema, dispatch_tool returns an error object and no method of
\* either client has been called.
C18_InvalidArgsError ==
    ( /\ d_out.kind # "none"
      /\ d_in.name \in TOOL_SCHEMAS
      /\ InvalidArgs(d_in.name, d_in.args_json) )
    => d_out = Return("error", "Tool dispatcher error", <<>>)

\* C18 witness: update_list_field with a value of a wrong type, with both
\* clients configured, has been answered with an error.
C18_Witness ==
    /\ d_in.name = "update_list_field" /\ d_in.args_json = "wrong_type"
    /\ d_in.v1
    /\ d_out.kind = "return" /\ d_out.tag = "error" /\ d_out.calls = <<>>

\* The create-type actions, the v1 method each is meant for, and the error
\* each gives without a v1 client.
CreateTools == {"add_company", "add_note_to_company", "add_company_to_list"}
V1Method(name) ==
    CASE name = "add_company" -> "v1.create_company"
      [] name = "add_note_to_company" -> "v1.create_company_note"
      [] OTHER -> "v1.add_company_to_list"
CapabilityGap(name) ==
    CASE name = "add_company" -> "v1 key not configured; cannot create companies"
      [] name = "add_note_to_company" -> "v1 key not configured; cannot add notes"
      [] OTHER -> "v1 key not configured; cannot add to lists"

\* C19 as stated: a create-type action calls the v1 client when there is one
\* and never the v2 client; without a v1 client it returns the capability-gap
\* error and calls nothing.
C19_CreateRoutedOrGap ==
    (d_out.kind # "none" /\ d_in.name \in CreateTools) =>
      /\ \A i \in 1..Len(d_out.calls) : d_out.calls[i] = V1Method(d_in.name)
      /\ ~d_in.v1 =>
           d_out = Return("error", CapabilityGap(d_in.name), <<>>)

\* C19 (amended): a create-type action never calls the v2 client; with
\* arguments that satisfy its schema it calls its v1 method once when there is
\* a v1 client and returns the capability-gap error, calling nothing, when
\* there is none; with arguments that are malformed or fail the schema it
\* returns the dispatcher's error and calls nothing, with or without v1.
C19_CreateRouting ==
    (d_out.kind # "none" /\ d_in.name \in CreateTools) =>
      /\ \A i \in 1..Len(d_out.calls) : d_out.calls[i] = V1Method(d_in.name)
      /\ IF InvalidArgs(d_in.name, d_in.args_json)
         THEN d_out = Return("error", "Tool dispatcher error", <<>>)
         ELSE IF d_in.v1
         THEN d_out.calls = <<V1Method(d_in.name)>>
         ELSE d_out = Return("error", CapabilityGap(d_in.name), <<>>)

\* C19 witness: add_company_to_list with valid arguments and no v1 client has
\* been answered with the capability-gap error.
C19_Witness ==
    /\ d_in.name = "add_company_to_list" /\ d_in.args_json = "valid"
    /\ ~d_in.v1
    /\ d_out = Return("error", "v1 key not configured; cannot add to lists", <<>>)

(***************************************************************************)
(* Claims about the list and field-value operations.                       *)
(***************************************************************************)
\* Number of entries of the organization on the remote list.
EntriesOf(org) ==
    Cardinality({i \in 1..Len(list_entries) : list_entries[i].entity_id = org})

\* Number of field values of a field on a list entry.
FieldValuesOf(field_id, le_id) ==
    Cardinality({i \in 1..Len(field_values) :
                    /\ field_values[i].field_id = field_id
                    /\ field_values[i].list_entry_id = le_id})

\* The kinds of the calls started so far.
KindsUsed ==
    UNION { {hist[c][k].kind : k \in 1..Len(hist[c])} \cup
            (IF conv[c].pc = "idle" THEN {} ELSE {conv[c].kind}) : c \in Convs }

\* Conversation "A" alone has made calls and none is in progress.
SequentialRun ==
    /\ hist["B"] = <<>>
    /\ \A c \in Convs : conv[c].pc = "idle"

\* C4: two or more sequential add-entity-to-list calls for one (list, entity),
\* the entity not on the list before, leave exactly one entry; the first call
\* returns the created entry, every later call returns None and issues no
\* create request.
C4_IdempotentAdd ==
    ( /\ SequentialRun
      /\ n_faults = 0
      /\ Len(hist["A"]) >= 2
      /\ KindsUsed \subseteq {"add_if_needed", "v1_add"} )
    => /\ EntriesOf(1) = 1
       /\ hist["A"][1].ret = "entry"
       /\ \A k \in 2..Len(hist["A"]) :
            hist["A"][k].ret = "None" /\ hist["A"][k].adds = 0

\* The same for add_organization_to_list_if_needed alone, which holds.
AddIfNeededIdempotentSequentially ==
    ( /\ SequentialRun
      /\ n_faults = 0
      /\ Len(hist["A"]) >= 2
      /\ KindsUsed \subseteq {"add_if_needed"} )
    => /\ EntriesOf(1) = 1
       /\ hist["A"][1].ret = "entry"
       /\ \A k \in 2..Len(hist["A"]) :
            hist["A"][k].ret = "None" /\ hist["A"][k].adds = 0

\* C5: when concurrent conversations call add_organization_to_list_if_needed
\* for the same (list, entity), the list holds at most one entry of the entity
\* under every interleaving.
C5_ConcurrentAddAtMostOne ==
    (n_faults = 0 /\ KindsUsed \subseteq {"add_if_needed"}) => EntriesOf(1) <= 1

C7_OneFieldValuePerPair ==
    (n_faults = 0 /\ KindsUsed \subseteq {"change_field"}) =>
      \A f \in ListFieldIds : \A i \in 1..Len(list_entries) :
        FieldValuesOf(f, list_entries[i].id) <= 1

\* The steps of change_field_value_in_list from field resolution on.
FieldStages == {"cf_fields", "cf_get_fv", "cf_put", "cf_post"}

\* The list has an entry with this id for this organization.
IsEntryOf(le_id, org) ==
    \E i \in 1..Len(list_entries) :
       list_entries[i].id = le_id /\ list_entries[i].entity_id = org

SingleCall ==
    /\ CallsStarted = 1
    /\ KindsUsed \subseteq {"add_if_needed", "change_field"}

\* C33: one add_organization_to_list_if_needed or
\* change_field_value_in_list call leaves at most one list entry of the
\* organization and at most one field value per (field, list entry), also
\* when the transport repeats a POST the remote had applied.
C33_RetriesDoNotDuplicate ==
    SingleCall =>
      /\ EntriesOf(1) <= 1
      /\ \A f \in ListFieldIds : \A i \in 1..Len(list_entries) :
           FieldValuesOf(f, list_entries[i].id) <= 1

\* The same when every response is a success, which holds.
SingleCallNoDuplicateWithoutFaults ==
    (SingleCall /\ n_faults = 0) =>
      /\ EntriesOf(1) <= 1
      /\ \A f \in ListFieldIds : \A i \in 1..Len(list_entries) :
           FieldValuesOf(f, list_entries[i].id) <= 1

\* C34: a change_field_value_in_list call that has added the organization
\* to the list and then raises while resolving the field or coercing the
\* value leaves the entry on the list and has created and updated no field
\* value.
C34_AddKeptOnLateFailure ==
    \A c \in Convs : \A k \in 1..Len(hist[c]) :
      ( /\ hist[c][k].kind = "change_field"
        /\ hist[c][k].outcome = "raised" /\ hist[c][k].at = "cf_fields"
        /\ hist[c][k].adds > 0 ) =>
        /\ EntriesOf(hist[c][k].org) >= 1
        /\ hist[c][k].creates = 0 /\ hist[c][k].updates = 0

\* C34 witness: the first call, for an organization not on the list and a
\* value that is no option, has raised in the coercion; the entry it added is
\* on the list and the organization has no field value.
C34_Witness ==
    /\ Len(hist["A"]) = 1 /\ conv["B"].pc = "idle" /\ hist["B"] = <<>>
    /\ hist["A"][1].kind = "change_field"
    /\ hist["A"][1].outcome = "raised" /\ hist["A"][1].ret = "AttributeError"
    /\ hist["A"][1].adds = 1
    /\ EntriesOf(1) = 1
    /\ \A i \in 1..Len(field_values) : field_values[i].entity_id # 1

(***************************************************************************)
(* Claims about the transports.                                            *)
(***************************************************************************)
\* The feed is k rate-limit responses and then a 200 with a body.
TransientThenSuccess(k) ==
    /\ \A i \in 1..k : tr.feed[i].status = 429
    /\ tr.feed[k + 1] = [status |-> 200, body |-> "json"]

\* C10: when AffinityAPI._request or AffinityV2._req receives 429 on k < 3
\* consecutive attempts and then a 200, the call returns the payload of the
\* 200 and has made exactly k + 1 requests.
C10_TransientThenSuccess ==
    ( /\ tr.pc = "done"
      /\ tr.has_key
      /\ tr.kind \in {"AffinityAPI", "AffinityV2"} )
    => \A k \in 0..(retries - 1) :
         TransientThenSuccess(k) =>
           /\ tr.outcome = "return"
           /\ tr.value = Value("payload", k + 1)
           /\ tr.n_requests = k + 1

\* The same for AffinityAPI._request alone, which holds.
ApiRequestTransientThenSuccess ==
    (tr.pc = "done" /\ tr.has_key /\ tr.kind = "AffinityAPI")
    => \A k \in 0..(retries - 1) :
         TransientThenSuccess(k) =>
           /\ tr.outcome = "return"
           /\ tr.value = Value("payload", k + 1)
           /\ tr.n_requests = k + 1

\* The transports of the current surface.
CurrentSurface == {"AffinityAPI", "AffinityV2", "ClientV2"}

\* An error status outside the transient ones.
OtherError(status) == status >= 400 /\ status \notin TRANSIENT

\* Every response of the feed has a transient status.
AllTransient == \A i \in 1..retries : tr.feed[i].status \in TRANSIENT

\* C11: a current-surface transport tries again only after a 429, 500, 502,
\* 503 or 504; a first response with any other error status makes the call
\* fail after exactly one request; no call makes more than 3 requests.
C11_RetryOnlyOnTransient ==
    (tr.has_key /\ tr.kind \in CurrentSurface) =>
      /\ tr.n_requests <= retries
      /\ \A i \in 1..tr.attempt : tr.feed[i].status \in TRANSIENT
      /\ (tr.pc = "done" /\ OtherError(tr.feed[1].status)) =>
           tr.outcome = "raise" /\ tr.n_requests = 1

\* The same without _req of src/client_v2.py, which holds.
RetryOnlyOnTransientButClientV2 ==
    (tr.has_key /\ tr.kind \in {"AffinityAPI", "AffinityV2"}) =>
      /\ tr.n_requests <= retries
      /\ \A i \in 1..tr.attempt : tr.feed[i].status \in TRANSIENT
      /\ (tr.pc = "done" /\ OtherError(tr.feed[1].status)) =>
           tr.outcome = "raise" /\ tr.n_requests = 1

\* C12: when every attempt of AffinityAPI._request or AffinityV2._req
\* receives a transient status, the call stops after 3 requests and raises;
\* it does not return.
C12_TransientExhausted ==
    ( /\ tr.pc = "done"
      /\ tr.has_key
      /\ tr.kind \in {"AffinityAPI", "AffinityV2"}
      /\ AllTransient )
    => tr.outcome = "raise" /\ tr.n_requests = retries

\* Under transient statuses only, no transport returns, and
\* AffinityAPI._request has sent 3 requests when it raises.
TransientNeverReturns ==
    (tr.pc = "done" /\ tr.has_key /\ AllTransient) =>
      /\ tr.outcome = "raise"
      /\ tr.kind = "AffinityAPI" =>
           tr.n_requests = retries /\ tr.value = Value("HTTPError", retries)

\* C13: when every response has status >= 400, AffinityV1._req sends exactly
\* 3 requests and then raises, the exception holding the error of the last
\* attempt.
C13_LegacyRetriesAnyError ==
    ( /\ tr.pc = "done"
      /\ tr.has_key
      /\ tr.kind = "AffinityV1"
      /\ \A i \in 1..V1_ATTEMPTS : tr.feed[i].status >= 400 )
    => /\ tr.outcome = "raise"
       /\ tr.n_requests = V1_ATTEMPTS
       /\ tr.value = Value("RetryError", V1_ATTEMPTS)

\* C13 witness: AffinityV1._req has raised after three validation errors.
C13_Witness ==
    /\ tr.pc = "done" /\ tr.has_key /\ tr.kind = "AffinityV1"
    /\ \A i \in 1..V1_ATTEMPTS : tr.feed[i].status = 422
    /\ tr.outcome = "raise" /\ tr.n_requests = V1_ATTEMPTS

\* C14: without the credential no transport sends a request, and the call
\* ends in the exception that reports the missing key.
C14_NoKeyNoRequest ==
    ~tr.has_key =>
      /\ tr.n_requests = 0
      /\ tr.pc = "done" =>
           /\ tr.outcome = "raise"
           /\ tr.value.at = 0
           /\ tr.value.tag =
                CASE tr.kind = "AffinityAPI" -> "ValueError"
                  [] tr.kind = "AffinityV2" -> "RuntimeError"
                  [] OTHER -> "RetryError"

\* C14 witness: AffinityV1._req without a key has run _check on each of its
\* three attempts and raised with no request sent.
C14_Witness ==
    /\ ~tr.has_key /\ tr.kind = "AffinityV1"
    /\ tr.pc = "done" /\ tr.attempt = V1_ATTEMPTS - 1
    /\ tr.outcome = "raise" /\ tr.n_requests = 0

\* C20: a transport that returns on a successful response with an empty body
\* returns the empty object {}, not None.
C20_EmptyBodyGivesEmptyObject ==
    ( /\ tr.pc = "done"
      /\ tr.outcome = "return"
      /\ tr.feed[tr.n_requests].body = "empty" )
    => tr.value.tag = "{}"

\* The same for the _req of AffinityV1 and AffinityV2, which holds.
ReqEmptyBodyGivesEmptyObject ==
    ( /\ tr.pc = "done"
      /\ tr.kind # "AffinityAPI"
      /\ tr.outcome = "return"
      /\ tr.feed[tr.n_requests].body = "empty" )
    => tr.value.tag = "{}"

(***************************************************************************)
(* Claims about the paginated scans.                                       *)
(***************************************************************************)
\* The matching items on the pages fetched.
MatchesSoFar == {i \in pg.match_pages : i <= pg.seen}

Min(a, b) == IF a <= b THEN a ELSE b
Max(a, b) == IF a >= b THEN a ELSE b

\* C15: against a feed whose every page carries a cursor,
\* find_list_id_by_name fetches at most 25 pages, and returns the matches of
\* the pages it fetched.
C15_ListPagesBounded ==
    (pg.op = "find_list_id_by_name" /\ pg.total = 0) =>
      /\ pg.seen <= PAGE_CEILING
      /\ pg.pc = "done" => pg.matches = MatchesSoFar

\* find_list_id_by_name of src/affinity/client_v2.py never fetches more than
\* 26 pages and, once it has returned, holds the matches of the pages fetched.
ListPagesBoundedByCeilingPlusOne ==
    (pg.op = "find_list_id_by_name" /\ pg.variant = "affinity/client_v2") =>
      /\ pg.seen <= PAGE_CEILING + 1
      /\ pg.pc = "done" =>
           /\ pg.matches = MatchesSoFar
           /\ pg.seen = IF pg.total = 0 THEN PAGE_CEILING + 1
                        ELSE Min(pg.total, PAGE_CEILING + 1)

\* C16 as stated: find_company never fetches more than max_pages pages, and
\* returns the matches of the first min(total, max_pages) pages.
C16_FindCompanyPaginates ==
    (pg.op = "find_company" /\ pg.has_query) =>
      /\ pg.seen <= pg.max_pages
      /\ pg.pc = "done" =>
           LET last == IF pg.total = 0 THEN pg.max_pages
                       ELSE Min(pg.total, pg.max_pages)
           IN  pg.matches = {i \in pg.match_pages : i <= last}

\* C16 (amended): find_company of src/affinity/client_v2.py fetches at least
\* one page and goes on until a page has no cursor or max_pages pages are
\* fetched; find_company of src/client_v2.py fetches the first page only.
\* Either returns the matches of exactly the pages it fetched, and fetches
\* nothing without a name or a domain.
C16_FindCompanyPages ==
    pg.op = "find_company" =>
      LET limit == IF pg.variant = "client_v2" THEN 1 ELSE Max(1, pg.max_pages)
          last == IF pg.total = 0 THEN limit ELSE Min(pg.total, limit)
      IN  /\ pg.seen <= limit
          /\ ~pg.has_query => pg.seen = 0
          /\ (pg.pc = "done" /\ pg.has_query) =>
               /\ pg.seen = last
               /\ pg.matches = {i \in pg.match_pages : i <= last}

\* C16 witness: find_company of src/affinity/client_v2.py has scanned a feed
\* of two pages and returned the match of the second.
C16_Witness ==
    /\ pg.op = "find_company" /\ pg.variant = "affinity/client_v2"
    /\ pg.has_query /\ pg.max_pages = DEFAULT_MAX_PAGES
    /\ pg.total = 2 /\ 2 \in pg.match_pages
    /\ pg.pc = "done" /\ pg.seen = 2 /\ 2 \in pg.matches

(***************************************************************************)
(* Claims about _coerce_value_for_field and _get_field_details.            *)
(***************************************************************************)
HasComma(str) == \E i \in 1..Len(str) : str[i] = ","

\* Options whose trimmed, case-folded text equals that of the value.
ExactOptions(options, str) ==
    {j \in 1..Len(options) : normalize(options[j].text) = normalize(str)}

\* Options whose text contains the trimmed, case-folded value.
SubstringOptions(options, str) ==
    {j \in 1..Len(options) : Contains(normalize(str), normalize(options[j].text))}

ReturnsIdOf(out, options, js) ==
    /\ out.kind = "return" /\ out.value.type = "int"
    /\ \E j \in js : options[j].id = out.value.n

\* A call with a field that has options and one comma-free string has
\* returned or raised.
SingleStringDone ==
    /\ co.op = "coerce" /\ co.field.options # <<>>
    /\ co.value.type = "str" /\ ~HasComma(co.value.s)
    /\ co.outs # <<>>

\* No exact, substring or all-digits rule applies to the value.
OnlyFuzzyLeft ==
    /\ ExactOptions(co.field.options, co.value.s) = {}
    /\ SubstringOptions(co.field.options, co.value.s) = {}
    /\ ~isdigit(co.value.s)

\* C21: a single comma-free string is resolved by the first rule that
\* applies: exact match, substring match, all digits as a literal id, fuzzy
\* match at or above the threshold, and failure otherwise.
C21_RuleOrder ==
    SingleStringDone =>
      LET options == co.field.options
          out == co.outs[1]
          exact == ExactOptions(options, co.value.s)
          sub == SubstringOptions(options, co.value.s)
      IN  IF exact # {} THEN ReturnsIdOf(out, options, exact)
          ELSE IF sub # {} THEN ReturnsIdOf(out, options, sub)
          ELSE IF isdigit(co.value.s) THEN out = CoReturn(IntVal(IntOf(co.value.s)))
          ELSE IF co.sim = "at_or_above" THEN ReturnsIdOf(out, options, 1..Len(options))
          ELSE out.kind = "raise"

\* The first three rules are applied in the order of C21, and a value none
\* of them resolves ends in the AttributeError of the fuzzy fallback.
RuleOrderUpToDigits ==
    SingleStringDone =>
      LET options == co.field.options
          out == co.outs[1]
          exact == ExactOptions(options, co.value.s)
          sub == SubstringOptions(options, co.value.s)
      IN  IF exact # {} THEN ReturnsIdOf(out, options, exact)
          ELSE IF sub # {} THEN ReturnsIdOf(out, options, sub)
          ELSE IF isdigit(co.value.s) THEN out = CoReturn(IntVal(IntOf(co.value.s)))
          ELSE out = CoRaise("AttributeError")

\* The text the options of a field show for an id.
ReverseLookup(options, id) ==
    {options[j].text : j \in {k \in 1..Len(options) : options[k].id = id}}

\* An option's display text was coerced against its own field.
OptionTextDone ==
    /\ co.op = "coerce" /\ co.value.type = "str" /\ co.outs # <<>>
    /\ \E j \in 1..Len(co.field.options) : co.field.options[j].text = co.value.s

\* C22: coercing an option's display text yields an id whose reverse lookup
\* in the field's options gives that text back.
C22_RoundTrip ==
    OptionTextDone =>
      /\ co.outs[1].kind = "return" /\ co.outs[1].value.type = "int"
      /\ ReverseLookup(co.field.options, co.outs[1].value.n) = {co.value.s}

\* The round trip holds for an option text without a comma that no other
\* option of the field shares up to case and surrounding blanks.
RoundTripOfDistinctCommaFreeText ==
    ( /\ OptionTextDone /\ ~HasComma(co.value.s)
      /\ Cardinality(ExactOptions(co.field.options, co.value.s)) = 1 ) =>
      /\ co.outs[1].kind = "return" /\ co.outs[1].value.type = "int"
      /\ ReverseLookup(co.field.options, co.outs[1].value.n) = {co.value.s}

\* A comma-separated string all of whose non-empty pieces are option texts
\* was coerced against a field with options.
CommaStringOfTextsDone ==
    /\ co.op = "coerce" /\ co.field.options # <<>>
    /\ co.value.type = "str" /\ HasComma(co.value.s)
    /\ \A i \in 1..Len(Pieces(co.value.s)) :
         ExactOptions(co.field.options, Pieces(co.value.s)[i]) # {}
    /\ co.outs # <<>>

\* C23: a comma-separated string of option texts gives the list of one
\* option id per non-empty piece, in the order of the pieces.
C23_CommaStringInOrder ==
    CommaStringOfTextsDone =>
      LET ps == Pieces(co.value.s)
          out == co.outs[1]
      IN  /\ out.kind = "return" /\ out.value.type = "list"
          /\ Len(out.value.items) = Len(ps)
          /\ \A i \in 1..Len(ps) :
               ReturnsIdOf(CoReturn(out.value.items[i]), co.field.options,
                           ExactOptions(co.field.options, ps[i]))

\* "a,b" was coerced against the options a (id 1) and b (id 2).
C23_Witness ==
    /\ CommaStringOfTextsDone
    /\ co.value.s = <<"a", ",", "b">>
    /\ co.outs[1] = CoReturn(ListVal(<<IntVal(1), IntVal(2)>>))

\* C24: a value that no exact, substring or digits rule resolves fails with
\* the not-found error when it scores below the threshold against every
\* option, and gives an option's id when it scores at or above it.
C24_FuzzyThreshold ==
    (SingleStringDone /\ OnlyFuzzyLeft) =>
      IF co.sim = "below" THEN co.outs[1] = CoRaise("RuntimeError")
      ELSE ReturnsIdOf(co.outs[1], co.field.options, 1..Len(co.field.options))

\* What coercing one element alone against the field gives.
Alone(field, v) == _coerce_value_for_field(field, v)

\* A list value was coerced against a field with options.
ListDone ==
    /\ co.op = "coerce" /\ co.field.options # <<>>
    /\ co.value.type = "list" /\ co.outs # <<>>

\* C25: the coercion of a list is the list of the coercions of its elements
\* alone, of the same length, and fails when one of them fails.
C25_Elementwise ==
    ListDone =>
      LET items == co.value.items
          out == co.outs[1]
      IN  IF \A i \in 1..Len(items) : Alone(co.field, items[i]).kind = "return"
          THEN out = CoReturn(ListVal([i \in 1..Len(items) |->
                                         Alone(co.field, items[i]).value]))
          ELSE out.kind = "raise"

\* The list coercion agrees with the single-value one on every list without
\* an all-digits string that is no option text or part of one.
ElementwiseWithoutLiteralIds ==
    ( /\ ListDone
      /\ \A i \in 1..Len(co.value.items) :
           co.value.items[i].type = "str" =>
             \/ ~isdigit(co.value.items[i].s)
             \/ SubstringOptions(co.field.options, co.value.items[i].s) # {} ) =>
      LET items == co.value.items
          out == co.outs[1]
      IN  IF \A i \in 1..Len(items) : Alone(co.field, items[i]).kind = "return"
          THEN out = CoReturn(ListVal([i \in 1..Len(items) |->
                                         Alone(co.field, items[i]).value]))
          ELSE out.kind = "raise"

ByNameDone ==
    /\ co.op = "field_details" /\ co.outs # <<>>
    /\ co.value.type = "str" /\ ~isdigit(co.value.s)

\* Fields whose trimmed, case-folded name equals the input's.
ExactFields == {i \in 1..Len(co.fields) : normalize(co.fields[i].name) = normalize(co.value.s)}

\* Fields whose name contains the trimmed, case-folded input.
SubstringFields ==
    {i \in 1..Len(co.fields) : Contains(normalize(co.value.s), normalize(co.fields[i].name))}

\* C27: a lookup by name returns a field whose name equals the input when
\* there is one, a field whose name contains it only when there is none,
\* and fails when no name contains it.
C27_ExactThenSubstring ==
    ByNameDone =>
      IF ExactFields # {}
      THEN \E i \in ExactFields : co.outs[1] = CoReturn(FieldVal(co.fields[i]))
      ELSE IF SubstringFields # {}
      THEN \E i \in SubstringFields : co.outs[1] = CoReturn(FieldVal(co.fields[i]))
      ELSE co.outs[1] = CoRaise("RuntimeError")

\* A lookup by name returns the first field whose name contains the input,
\* and fails when there is none.
FirstContainingField ==
    ByNameDone =>
      IF SubstringFields # {}
      THEN co.outs[1] = CoReturn(FieldVal(co.fields[
             CHOOSE i \in SubstringFields : \A j \in SubstringFields : i <= j]))
      ELSE co.outs[1] = CoRaise("RuntimeError")

(***************************************************************************)
(* Claims about find_company without a query.                              *)
(***************************************************************************)
NoQueryCall == pg.op = "find_company" /\ ~pg.has_query

\* C28 as stated: find_company with neither name nor domain fetches no page
\* and ends by raising.
C28_NoQueryRaises ==
    NoQueryCall =>
      /\ pg.seen = 0
      /\ pg.pc = "done" => pg.outcome = "raise"

\* C28: find_company with neither name nor domain fetches no page and
\* returns the error object {"error": "Provide name or domain"}; it does not
\* raise.
C28_NoQueryReturnsError ==
    NoQueryCall =>
      /\ pg.seen = 0
      /\ pg.pc = "done" => (pg.outcome = "return" /\ pg.ret = "error")

\* find_company without a query has returned, against a feed with pages
\* that match.
C28_Witness ==
    /\ NoQueryCall /\ pg.pc = "done"
    /\ pg.ret = "error" /\ pg.seen = 0
    /\ pg.total > 0 /\ pg.match_pages # {}

(***************************************************************************)
(* Claims about the conversation of Agent.run.                             *)
(***************************************************************************)
\* The first model invocation is about to be made.
FirstInvocation == pc = "awaiting" /\ n_invocations = 0

SystemTurns == {i \in 1..Len(chat_messages) : chat_messages[i].role = "system"}

\* The user and assistant messages of the input, as turns, in order.
UserAssistantHistory ==
    LET ua == SelectSeq(messages, LAMBDA m : m.role \in {"user", "assistant"})
    IN  [i \in 1..Len(ua) |-> Turn(ua[i].role, ua[i].content, <<>>, NoVal, NoVal)]

\* C29: the conversation of the first model invocation is one system turn
\* followed by the user and assistant history in its order.
C29_OneSystemTurnFirst ==
    FirstInvocation =>
      /\ Cardinality(SystemTurns) = 1
      /\ chat_messages # <<>> /\ chat_messages[1].role = "system"
      /\ Tail(chat_messages) = UserAssistantHistory

\* The conversation of the first model invocation has the system, user and
\* assistant messages of the input, in order, and as many system turns as
\* the input has system messages.
SeededFromInputOnly ==
    FirstInvocation =>
      LET sua == SelectSeq(messages, LAMBDA m : m.role \in {"system", "user", "assistant"})
      IN  /\ Len(chat_messages) = Len(sua)
          /\ \A i \in 1..Len(sua) : /\ chat_messages[i].role = sua[i].role
                                    /\ chat_messages[i].content = sua[i].content
          /\ Cardinality(SystemTurns)
               = Cardinality({i \in 1..Len(messages) : messages[i].role = "system"})

IsPrefix(a, b) == Len(a) <= Len(b) /\ SubSeq(b, 1, Len(a)) = a

\* C30: every step of a run leaves the conversation as it was or appends to
\* it, the steps from one model invocation towards the next append at least
\* one turn, and the caller's message list stays as it was.
C30_AppendOnly ==
    [][ /\ IsPrefix(chat_messages, chat_messages')
        /\ (pc = "awaiting" /\ pc' = "executing") =>
             Len(chat_messages') > Len(chat_messages)
        /\ messages' = messages ]_vars

\* A second model invocation is about to be made with the seeded
\* conversation and the turns of a tool round after it.
C30_Witness ==
    /\ pc = "awaiting" /\ n_invocations = 1
    /\ IsPrefix(SeedConversation(messages), chat_messages)
    /\ Len(chat_messages) >= Len(SeedConversation(messages)) + 2
    /\ chat_messages[Len(chat_messages)].role = "tool"

(***************************************************************************)
(* Claims about the trace of Agent.run.                                    *)
(***************************************************************************)
\* The tool calls of the tool-request turns of a conversation, in order.
RECURSIVE RequestedCalls(_)
RequestedCalls(conversation) ==
    IF conversation = <<>> THEN <<>>
    ELSE Head(conversation).tool_calls \o RequestedCalls(Tail(conversation))

\* The tool-result turns of the conversation, in order.
ToolTurns == SelectSeq(chat_messages, LAMBDA t : t.role = "tool")

\* C31: when run returns, the trace has one event per tool call dispatched
\* during the run, in dispatch order, each with the call's name, arguments
\* and result, and it is as long as the tool-result turns are many.
C31_TraceComplete ==
    pc = "final" =>
      LET calls == RequestedCalls(chat_messages)
      IN  /\ Len(tool_events) = Len(calls)
          /\ Len(tool_events) = Len(ToolTurns)
          /\ \A i \in 1..Len(tool_events) :
               /\ i <= Len(calls)
               /\ tool_events[i].name = calls[i].name
               /\ tool_events[i].args = calls[i].arguments
               /\ tool_events[i].result = AgentDispatch(calls[i])
               /\ i <= Len(ToolTurns)
               /\ ToolTurns[i].content = json_dumps(tool_events[i].result)
               /\ ToolTurns[i].tool_call_id = calls[i].id

\* run has returned after two rounds of tool calls, one of them with two
\* different calls.
C31_Witness ==
    /\ pc = "final" /\ n_invocations = 3
    /\ Len(tool_events) >= 3
    /\ \E i \in 1..(Len(tool_events) - 1) :
         tool_events[i].name # tool_events[i + 1].name

(***************************************************************************)
(* Claims about the find_company_id and batch_update_list_fields tools.    *)
(***************************************************************************)
\* The class of the exception AffinityV2._req raises for a status >= 400:
\* every branch raises RuntimeError.
V2ReqRaises(status) == "RuntimeError"

\* find_company_id with a name or domain and a v1 client configured, the v2
\* listing being refused with 403, has been dispatched.
RefusedWithV1 ==
    /\ d_out.kind # "none"
    /\ d_in.name = "find_company_id" /\ d_in.args_json = "valid"
    /\ d_in.v1
    /\ d_in.v2out = V2ReqRaises(403)

\* C35: when the v2 company listing is refused with 403 and a v1 client is
\* configured, find_company_id returns the warning with the v1 search
\* results, having called v1.search_companies, and no error object.
C35_FallsBackToV1 ==
    RefusedWithV1 =>
      /\ d_out.kind = "return" /\ d_out.tag = "payload"
      /\ \E i \in 1..Len(d_out.calls) : d_out.calls[i] = "v1.search_companies"

\* find_company_id with a name or domain returns an error object whenever
\* the v2 client raises, with or without a v1 client, and calls no method of
\* the v1 client.
FindCompanyIdNeverFallsBack ==
    ( /\ d_out.kind # "none"
      /\ d_in.name = "find_company_id" /\ d_in.args_json = "valid"
      /\ d_in.v2out # "ok" ) =>
      /\ d_out.kind = "return" /\ d_out.tag = "error"
      /\ d_out.calls = <<"v2.find_company">>
      /\ d_out.detail = IF d_in.v2out = "PermissionError" /\ d_in.v1
                        THEN "Tool dispatcher error"
                        ELSE IF d_in.v2out = "PermissionError"
                        THEN "PermissionError"
                        ELSE "find_company_id failed"

\* C36: batch_update_list_fields with schema-valid arguments and a working
\* v2 client calls v2.batch_update_list_fields once and returns its
\* response.
C36_BatchUpdateIssuesPatch ==
    ( /\ d_out.kind # "none"
      /\ d_in.name = "batch_update_list_fields" /\ d_in.args_json = "valid"
      /\ d_in.v2out = "ok" ) =>
      d_out = Return("payload", "v2.batch_update_list_fields",
                     <<"v2.batch_update_list_fields">>)

\* batch_update_list_fields returns the dispatcher's error and issues no
\* request, whatever its arguments and clients.
BatchUpdateAlwaysErrors ==
    (d_out.kind # "none" /\ d_in.name = "batch_update_list_fields") =>
      d_out = Return("error", "Tool dispatcher error", <<>>)

(***************************************************************************)
(* Claims about get_list_entries.                                          *)
(***************************************************************************)
GetListEntriesCall == pg.op = "get_list_entries"

\* Once get_list_entries has returned, the feed had a last page, every page
\* up to it was requested, and the entries are those of the pages in order;
\* against a feed without a last page it has not returned.
ReturnsAllPagesInOrder ==
    GetListEntriesCall =>
      /\ pg.total = 0 => pg.pc # "done"
      /\ pg.pc = "done" =>
           /\ pg.seen = pg.total
           /\ pg.entries = [i \in 1..pg.total |-> i]
      /\ pg.pc # "done" => (pg.total = 0 \/ pg.seen < pg.total)

\* C37: get_list_entries stops at the first page without a next_page_token
\* and at no page before it, so it returns exactly when the feed has such a
\* page, and then with the entries of all pages in page order.
C37_NoPageCeiling ==
    /\ []ReturnsAllPagesInOrder
    /\ (GetListEntriesCall /\ pg.total > 0) ~> (pg.pc = "done")

\* C37 witness: get_list_entries has returned the entries of a feed longer
\* than the page ceiling of the v2 scans.
C37_Witness ==
    /\ GetListEntriesCall /\ pg.pc = "done"
    /\ pg.total > PAGE_CEILING + 1
    /\ Len(pg.entries) = pg.total

====
